---------------------------- MODULE Spec2Model ----------------------------
(***************************************************************************)
(* A model of py21cmemu: the parameter normalizer (inputs.py) and the      *)
(* output reconstructor (outputs.py).                                      *)
(*                                                                         *)
(* Numbers.  The Python code computes with float64 arrays.  The model      *)
(* computes with exact numbers: a number is a pair <<r, h>> of rationals   *)
(* standing for r + h * 10^38 (the second component carries the one        *)
(* magnitude, L_X ~ 10^38..10^42, that does not fit a machine integer).    *)
(* A rational is a pair <<n, d>> in lowest terms with d > 0.  Rounding is  *)
(* not modelled: an equality of the model is an equality "within           *)
(* floating-point tolerance" of the program.                               *)
(*                                                                         *)
(* Indices.  Python indexes from 0 and TLA+ sequences from 1: coordinate   *)
(* j of the code is element j+1 of the model.                              *)
(***************************************************************************)
EXTENDS Integers, Sequences, FiniteSets, TLC

VARIABLES
    emulator,   \* the model variant of the EmulatorInput: "default" | "radio_background"
    pc,         \* where the caller stands: "idle" | "ready" | "done"
    arg,        \* the caller's input object (a Python object, see the constructors)
    given,      \* the value of the caller's object when it was handed over
    limits,     \* properties.limits, an (n_params, 2) array
    call,       \* the call made: [op, normed]
    ret,        \* what the call produced: [kind, val]; kind "array" or an exception
    raw,        \* RawEmulatorOutput.output: one flat vector per sample
    pred,       \* the network's prediction, as it was when raw was built from it
    stage,      \* the reconstructor's position: "idle" | "raw" | "renormalized" |
                \* "done", or "predicted" after Emulator.predict
    rout,       \* what get_renormalized returned: one array per quantity
    files,      \* the files of the directory outputs are written to, by path
    env,        \* the data directory, the configuration and the network
    cfg,        \* a Config object, its file and the directories on disk
    cache       \* emu21cmfast: its configuration and its data directories

vars == <<emulator, pc, arg, given, limits, call, ret, raw, pred, stage, rout,
          files, env, cfg, cache>>

inVars == <<emulator, pc, arg, given, limits, call, ret>>
outVars == <<raw, pred, stage, rout>>
sysVars == <<files, env, cfg, cache>>

----------------------------------------------------------------------------
(* Exact arithmetic *)

Abs(x) == IF x < 0 THEN -x ELSE x

RECURSIVE GCD(_, _)
GCD(a, b) == IF b = 0 THEN a ELSE GCD(b, a % b)

QNorm(n, d) ==
    LET g == GCD(Abs(n), Abs(d))
        s == IF d < 0 THEN -1 ELSE 1
    IN  <<(s * n) \div g, (s * d) \div g>>

QZero == <<0, 1>>
QAdd(a, b) == IF b[1] = 0 THEN a ELSE IF a[1] = 0 THEN b
              ELSE QNorm(a[1] * b[2] + b[1] * a[2], a[2] * b[2])
QNeg(a) == <<-a[1], a[2]>>
QSub(a, b) == QAdd(a, QNeg(b))
QMul(a, b) == IF a[1] = 0 \/ b[1] = 0 THEN QZero
              ELSE QNorm(a[1] * b[1], a[2] * b[2])
QDiv(a, b) == IF a[1] = 0 THEN QZero ELSE QNorm(a[1] * b[2], a[2] * b[1])
\* Comparison by integer part, then by fractional part (the products stay small).
QFloor(a) == a[1] \div a[2]
QLt(a, b) == IF QFloor(a) # QFloor(b) THEN QFloor(a) < QFloor(b)
             ELSE (a[1] % a[2]) * b[2] < (b[1] % b[2]) * a[2]
QLe(a, b) == a = b \/ QLt(a, b)

\* n/d as a number
R(n, d) == <<QNorm(n, d), QZero>>
\* the integer n as a number
I(n) == <<<<n, 1>>, QZero>>
\* k * 10^38 as a number
E38(k) == <<QZero, <<k, 1>>>>

NAdd(x, y) == <<QAdd(x[1], y[1]), QAdd(x[2], y[2])>>
NSub(x, y) == <<QSub(x[1], y[1]), QSub(x[2], y[2])>>
\* The code multiplies and divides by numbers of ordinary size only
\* (differences of limits, 1000): one factor has no 10^38 part.
NMul(x, y) == IF y[2] = QZero
              THEN <<QMul(x[1], y[1]), QMul(x[2], y[1])>>
              ELSE <<QMul(x[1], y[1]), QMul(y[2], x[1])>>
NDiv(x, y) == <<QDiv(x[1], y[1]), QDiv(x[2], y[1])>>
NLe(x, y) == IF x[2] = y[2] THEN QLe(x[1], y[1]) ELSE QLt(x[2], y[2])
NLt(x, y) == IF x[2] = y[2] THEN QLt(x[1], y[1]) ELSE QLt(x[2], y[2])
NGe(x, y) == NLe(y, x)


----------------------------------------------------------------------------
(* properties.py: the static properties of the two model variants *)

Emulators == {"default", "radio_background"}

\* The parameter names, in the order the network takes them.
astro_param_keys(e) ==
    IF e = "default"
    THEN <<"F_STAR10", "ALPHA_STAR", "F_ESC10", "ALPHA_ESC", "M_TURN",
           "t_STAR", "L_X", "NU_X_THRESH", "X_RAY_SPEC_INDEX">>
    ELSE <<"fR_mini", "L_X_MINI", "F_STAR7_MINI", "F_ESC7_MINI", "A_LW">>

NParams(e) == Len(astro_param_keys(e))

\* The column of NU_X_THRESH: theta[:, 7] of the code.
NU_X_THRESH == 8

\* The default variant's limits are read from the bundled archive
\* emulator_constants.npz (key "limits"): the parameter ranges of the
\* emulator, log10 units on F_STAR10, F_ESC10, M_TURN and L_X, keV on
\* NU_X_THRESH.
DefaultLimits ==
    << <<I(-3), I(0)>>,       \* log10 F_STAR10
       <<R(-1, 2), I(1)>>,    \* ALPHA_STAR
       <<I(-3), I(0)>>,       \* log10 F_ESC10
       <<I(-1), R(1, 2)>>,    \* ALPHA_ESC
       <<I(8), I(10)>>,       \* log10 M_TURN
       <<R(1, 100), I(1)>>,   \* t_STAR
       <<I(38), I(42)>>,      \* log10 L_X
       <<R(1, 10), R(3, 2)>>, \* NU_X_THRESH, keV
       <<I(-1), I(3)>> >>     \* X_RAY_SPEC_INDEX

RadioLimits ==
    << <<I(-2), I(6)>>, <<I(33), I(45)>>, <<I(-5), I(0)>>,
       <<I(-6), I(-1)>>, <<I(0), I(10)>> >>

\* emulator_properties(emulator).limits
emulator_properties_limits(e) ==
    IF e = "default" THEN DefaultLimits ELSE RadioLimits

----------------------------------------------------------------------------
(* Python objects.  rank 0: a number; rank 1: a container of numbers (a    *)
(* parameter set); rank 2: a container of parameter sets (a batch).        *)

PyFloat(v) == [type |-> "float", rank |-> 0, keys |-> <<>>, items |-> <<v>>]
PyVec(t, row) == [type |-> t, rank |-> 1, keys |-> <<>>, items |-> row]
PyDict(ks, row) == [type |-> "dict", rank |-> 1, keys |-> ks, items |-> row]
PySeq(t, elems) == [type |-> t, rank |-> 2, keys |-> <<>>, items |-> elems]
\* a 2-D float array: its rows are 1-D arrays
PyArray2(m) == PySeq("ndarray", [i \in 1..Len(m) |-> PyVec("ndarray", m[i])])
NoObject == [type |-> "none", rank |-> 0, keys |-> <<>>, items |-> <<>>]

\* hasattr(o, "__len__")
HasLen(o) == o.rank > 0
\* len(o)
PyLen(o) == Len(o.items)
\* the values of a 2-D float array object
ArrayValues(o) == [i \in 1..Len(o.items) |-> o.items[i].items]

\* theta[key] of a dict: the value stored under key
HasKey(d, k) == \E i \in 1..Len(d.keys) : d.keys[i] = k
DictGet(d, k) == d.items[CHOOSE i \in 1..Len(d.keys) : d.keys[i] = k]

Raise(exc) == [kind |-> exc, val |-> <<>>]
Return(v) == [kind |-> "array", val |-> v]
NoResult == [kind |-> "none", val |-> <<>>]
Exceptions == {"ValueError", "TypeError", "KeyError", "IndexError"}

----------------------------------------------------------------------------
(* The heap of one call.  arg is the caller's object, limits the           *)
(* properties' array, theta the array make_param_array builds, out the     *)
(* array a copy() makes.  A reference is the name of a cell.               *)

Heap(a, l) == [arg |-> a, limits |-> l, theta |-> <<>>, out |-> <<>>]

GetMat(h, ref) == IF ref = "arg" THEN ArrayValues(h.arg) ELSE h[ref]
SetMat(h, ref, m) ==
    IF ref = "arg" THEN [h EXCEPT !.arg = PyArray2(m)] ELSE [h EXCEPT ![ref] = m]

\* theta.copy(): a new array with the same values; <<heap, reference>>
ArrayAlias(h, src) == <<h, src>>
ArrayCopy(h, src) == <<SetMat(h, "out", GetMat(h, src)), "out">>

\* limits[:, c]
LimitsCol(h, c) == [j \in 1..Len(h.limits) |-> h.limits[j][c]]
VecSub(a, b) == [j \in 1..Len(a) |-> NSub(a[j], b[j])]

\* a[:, j] /= q and a[:, j] *= q, in place
IDivCol(h, ref, j, q) ==
    LET m == GetMat(h, ref)
    IN  SetMat(h, ref, [i \in 1..Len(m) |-> [m[i] EXCEPT ![j] = NDiv(@, q)]])
IMulCol(h, ref, j, q) ==
    LET m == GetMat(h, ref)
    IN  SetMat(h, ref, [i \in 1..Len(m) |-> [m[i] EXCEPT ![j] = NMul(@, q)]])
\* a -= v, a += v, a /= v, a *= v in place, v broadcast over the rows
ISub(h, ref, v) ==
    LET m == GetMat(h, ref)
    IN  SetMat(h, ref, [i \in 1..Len(m) |-> [j \in 1..Len(m[i]) |-> NSub(m[i][j], v[j])]])
IAdd(h, ref, v) ==
    LET m == GetMat(h, ref)
    IN  SetMat(h, ref, [i \in 1..Len(m) |-> [j \in 1..Len(m[i]) |-> NAdd(m[i][j], v[j])]])
IDiv(h, ref, v) ==
    LET m == GetMat(h, ref)
    IN  SetMat(h, ref, [i \in 1..Len(m) |-> [j \in 1..Len(m[i]) |-> NDiv(m[i][j], v[j])]])
IMul(h, ref, v) ==
    LET m == GetMat(h, ref)
    IN  SetMat(h, ref, [i \in 1..Len(m) |-> [j \in 1..Len(m[i]) |-> NMul(m[i][j], v[j])]])

----------------------------------------------------------------------------
(* inputs.py: normalize and undo_normalization.  Each takes the heap and   *)
(* a reference to theta and returns <<heap, reference to the result>>.     *)

\* normalize with the batch's own column minima in place of the lower limits
normalize_batch_minimum(h, theta) ==
    LET c  == ArrayCopy(h, theta)
        h1 == IDivCol(c[1], c[2], NU_X_THRESH, I(1000))
        m  == GetMat(h1, c[2])
        lo == [j \in 1..Len(m[1]) |->
                 CHOOSE v \in {m[i][j] : i \in 1..Len(m)} :
                     \A i \in 1..Len(m) : NLe(v, m[i][j])]
        h2 == ISub(h1, c[2], lo)
        h3 == IDiv(h2, c[2], VecSub(LimitsCol(h2, 2), LimitsCol(h2, 1)))
    IN  <<h3, c[2]>>

DefaultEmulatorInput_normalize(h, theta) ==
    LET c  == ArrayCopy(h, theta)
        h1 == IDivCol(c[1], c[2], NU_X_THRESH, I(1000))
        h2 == ISub(h1, c[2], LimitsCol(h1, 1))
        h3 == IDiv(h2, c[2], VecSub(LimitsCol(h2, 2), LimitsCol(h2, 1)))
    IN  <<h3, c[2]>>

\* undo_normalization without the keV to eV conversion of NU_X_THRESH
undo_normalization_no_units(h, theta) ==
    LET c  == ArrayCopy(h, theta)
        h1 == IMul(c[1], c[2], VecSub(LimitsCol(c[1], 2), LimitsCol(c[1], 1)))
        h2 == IAdd(h1, c[2], LimitsCol(h1, 1))
    IN  <<h2, c[2]>>

\* undo_normalization without the offset: theta_wdims += limits[:, 0] left out
undo_normalization_no_offset(h, theta) ==
    LET c  == ArrayCopy(h, theta)
        h1 == IMul(c[1], c[2], VecSub(LimitsCol(c[1], 2), LimitsCol(c[1], 1)))
        h3 == IMulCol(h1, c[2], NU_X_THRESH, I(1000))
    IN  <<h3, c[2]>>

DefaultEmulatorInput_undo_normalization(h, theta) ==
    LET c  == ArrayCopy(h, theta)
        h1 == IMul(c[1], c[2], VecSub(LimitsCol(c[1], 2), LimitsCol(c[1], 1)))
        h2 == IAdd(h1, c[2], LimitsCol(h1, 1))
        h3 == IMulCol(h2, c[2], NU_X_THRESH, I(1000))
    IN  <<h3, c[2]>>

RadioEmulatorInput_normalize(h, theta) ==
    LET c  == ArrayCopy(h, theta)
        h1 == ISub(c[1], c[2], LimitsCol(c[1], 1))
        h2 == IDiv(h1, c[2], VecSub(LimitsCol(h1, 2), LimitsCol(h1, 1)))
    IN  <<h2, c[2]>>

RadioEmulatorInput_undo_normalization(h, theta) ==
    LET c  == ArrayCopy(h, theta)
        h1 == IMul(c[1], c[2], VecSub(LimitsCol(c[1], 2), LimitsCol(c[1], 1)))
        h2 == IAdd(h1, c[2], LimitsCol(h1, 1))
    IN  <<h2, c[2]>>

\* self.normalize / self.undo_normalization of the variant's class
normalize(e, h, theta) ==
    IF e = "default" THEN DefaultEmulatorInput_normalize(h, theta)
    ELSE RadioEmulatorInput_normalize(h, theta)

undo_normalization(e, h, theta) ==
    IF e = "default" THEN DefaultEmulatorInput_undo_normalization(h, theta)
    ELSE RadioEmulatorInput_undo_normalization(h, theta)

----------------------------------------------------------------------------
(* inputs.py: make_param_array *)

\* the type looked at before the length
format_type_before_length(e, theta) ==
    IF theta.type \notin {"dict", "ndarray", "list"} THEN Raise("TypeError")
    ELSE IF PyLen(theta) # NParams(e) THEN Raise("ValueError")
    ELSE IF theta.type = "dict"
    THEN IF \E j \in 1..NParams(e) : ~HasKey(theta, astro_param_keys(e)[j])
         THEN Raise("KeyError")
         ELSE Return([j \in 1..NParams(e) |-> DictGet(theta, astro_param_keys(e)[j])])
    ELSE Return(theta.items)

\* tuples taken as lists
format_accepting_tuples(e, theta) ==
    IF PyLen(theta) # NParams(e) THEN Raise("ValueError")
    ELSE IF theta.type = "dict"
    THEN IF \E j \in 1..NParams(e) : ~HasKey(theta, astro_param_keys(e)[j])
         THEN Raise("KeyError")
         ELSE Return([j \in 1..NParams(e) |-> DictGet(theta, astro_param_keys(e)[j])])
    ELSE Return(theta.items)

\* a dict read in its own key order
format_dict_by_position(e, theta) ==
    IF PyLen(theta) # NParams(e) THEN Raise("ValueError")
    ELSE IF theta.type = "dict"
    THEN IF \E j \in 1..NParams(e) : ~HasKey(theta, astro_param_keys(e)[j])
         THEN Raise("KeyError")
         ELSE Return(theta.items)
    ELSE IF theta.type = "ndarray" THEN Return(theta.items)
    ELSE IF theta.type = "list" THEN Return(theta.items)
    ELSE Raise("TypeError")

\* One parameter set as a row of floats, or the exception raised.
format_single_theta_vector(e, theta) ==
    IF PyLen(theta) # NParams(e) THEN Raise("ValueError")
    ELSE IF theta.type = "dict"
    THEN IF \E j \in 1..NParams(e) : ~HasKey(theta, astro_param_keys(e)[j])
         THEN Raise("KeyError")
         ELSE Return([j \in 1..NParams(e) |-> DictGet(theta, astro_param_keys(e)[j])])
    ELSE IF theta.type = "ndarray" THEN Return(theta.items)
    ELSE IF theta.type = "list" THEN Return(theta.items)
    ELSE Raise("TypeError")

\* theta.min(), theta.max()
ArrayElems(m) == {m[i][j] : i \in 1..Len(m), j \in 1..Len(m[1])}
ArrayMin(m) == CHOOSE v \in ArrayElems(m) : \A w \in ArrayElems(m) : NLe(v, w)
ArrayMax(m) == CHOOSE v \in ArrayElems(m) : \A w \in ArrayElems(m) : NLe(w, v)

\* theta.max() < 1 in place of theta.max() <= 1
params_normed_strict(m) == NGe(ArrayMin(m), I(0)) /\ NLt(ArrayMax(m), I(1))

\* params_normed = theta.min() >= 0 and theta.max() <= 1
params_normed(m) == NGe(ArrayMin(m), I(0)) /\ NLe(ArrayMax(m), I(1))

\* The parameter sets the list comprehension iterates over.
ParamSets(o) == IF o.type = "dict" \/ o.rank = 1 THEN <<o>> ELSE o.items

\* the two transforms taken for each other
reconcile_swapped(e, h, pn, normed) ==
    IF (pn /\ normed) \/ (~pn /\ ~normed)
    THEN [heap |-> h, ret |-> Return(h.theta)]
    ELSE IF pn
    THEN LET r == normalize(e, h, "theta")
         IN  [heap |-> r[1], ret |-> Return(GetMat(r[1], r[2]))]
    ELSE LET r == undo_normalization(e, h, "theta")
         IN  [heap |-> r[1], ret |-> Return(GetMat(r[1], r[2]))]

\* The branch on params_normed and normed that ends make_param_array:
\* theta as it is, undo_normalization(theta) or normalize(theta).
reconcile(e, h, pn, normed) ==
    IF (pn /\ normed) \/ (~pn /\ ~normed)
    THEN [heap |-> h, ret |-> Return(h.theta)]
    ELSE IF pn
    THEN LET r == undo_normalization(e, h, "theta")
         IN  [heap |-> r[1], ret |-> Return(GetMat(r[1], r[2]))]
    ELSE LET r == normalize(e, h, "theta")
         IN  [heap |-> r[1], ret |-> Return(GetMat(r[1], r[2]))]

\* make_param_array(astro_params, normed) on the heap h: [heap, ret]
make_param_array(e, h, normed) ==
    LET o == h.arg
    IN  IF ~HasLen(o) THEN [heap |-> h, ret |-> Raise("TypeError")]
        ELSE IF o.type # "dict" /\ PyLen(o) = 0
        THEN [heap |-> h, ret |-> Raise("IndexError")]
        ELSE
        LET sets == ParamSets(o)
            rows == [i \in 1..Len(sets) |-> format_single_theta_vector(e, sets[i])]
            bad  == {i \in 1..Len(sets) : rows[i].kind # "array"}
        IN  IF bad # {}
            THEN [heap |-> h,
                  ret |-> rows[CHOOSE i \in bad : \A k \in bad : i <= k]]
            ELSE
            LET h1 == [h EXCEPT !.theta = [i \in 1..Len(sets) |-> rows[i].val]]
            IN  reconcile(e, h1, params_normed(h1.theta), normed)

----------------------------------------------------------------------------
(* The inputs a caller hands over.  Values: rows of normalized units,      *)
(* rows of physical units, rows with one coordinate outside [0,1], and     *)
(* the rows tests/test_main.py builds as 10**u.  Forms: every form of      *)
(* make_param_array's docstring, and the forms it rejects.                 *)

\* The largest batch: the test's batches have 5 rows.
MaxBatch == 5

RECURSIVE IPow10(_)
IPow10(k) == IF k = 0 THEN 1 ELSE 10 * IPow10(k - 1)
\* 10 ** k for an integer k
Pow10(k) == IF k >= 38 THEN E38(IPow10(k - 38))
            ELSE IF k >= 0 THEN I(IPow10(k)) ELSE R(1, IPow10(-k))

\* The columns the network takes in log10: theta[:, [0, 2, 4, 6]].
LogCols == {1, 3, 5, 7}

UnitRow(e, v) == [j \in 1..NParams(e) |-> v]
LoRow(e) == [j \in 1..NParams(e) |-> emulator_properties_limits(e)[j][1]]
HiRow(e) == [j \in 1..NParams(e) |-> emulator_properties_limits(e)[j][2]]
MidRow(e) == [j \in 1..NParams(e) |-> NDiv(NAdd(LoRow(e)[j], HiRow(e)[j]), I(2))]
\* a row inside the limits whose log10 coordinates are integers
GridRow == [MidRow("default") EXCEPT ![1] = I(-1), ![3] = I(-2), ![5] = I(9), ![7] = I(40)]

\* A row of the limits' units in the units the caller uses: eV on NU_X_THRESH.
PhysicalRow(e, u) ==
    IF e = "default" THEN [u EXCEPT ![NU_X_THRESH] = NMul(@, I(1000))] ELSE u
\* The test's physical vector: 10**u on the log10 columns, eV on NU_X_THRESH.
TestVector(u) ==
    [j \in 1..Len(u) |->
        IF j \in LogCols THEN Pow10(u[j][1][1])
        ELSE IF j = NU_X_THRESH THEN NMul(u[j], I(1000)) ELSE u[j]]

PerturbedRows(e) ==
    {[UnitRow(e, R(1, 2)) EXCEPT ![j] = v] : j \in {1, NParams(e)}, v \in {R(-1, 2), R(3, 2)}}

Rows(e) ==
    {UnitRow(e, I(0)), UnitRow(e, I(1)), UnitRow(e, R(1, 2))}
    \cup {PhysicalRow(e, LoRow(e)), PhysicalRow(e, HiRow(e)), PhysicalRow(e, MidRow(e))}
    \cup PerturbedRows(e)
    \cup (IF e = "default" THEN {TestVector(LoRow(e)), TestVector(GridRow)} ELSE {})

FillRows(e) == {UnitRow(e, R(1, 2)), PhysicalRow(e, MidRow(e))}

\* A batch of size rows: r at position pos, fill elsewhere.
BatchOf(r, fill, size, pos) == [i \in 1..size |-> IF i = pos THEN r ELSE fill]
BatchShapes == {<<1, 1>>, <<2, 1>>, <<2, 2>>, <<MaxBatch, 1>>, <<MaxBatch, MaxBatch>>}
Batches(e) ==
    {BatchOf(r, f, sh[1], sh[2]) : r \in Rows(e), f \in FillRows(e), sh \in BatchShapes}

Reverse(s) == [i \in 1..Len(s) |-> s[Len(s) + 1 - i]]
DictOf(e, row) == PyDict(astro_param_keys(e), row)
\* the same mapping, its keys inserted in the opposite order
DictReversed(e, row) == PyDict(Reverse(astro_param_keys(e)), Reverse(row))

\* The accepted forms of one parameter set and of a batch.
SingleForms(e, row) ==
    {PyVec("ndarray", row), PyVec("list", row), DictOf(e, row), DictReversed(e, row)}
BatchForms(e, b) ==
    {PyArray2(b),
     PySeq("list", [i \in 1..Len(b) |-> PyVec("list", b[i])]),
     PySeq("list", [i \in 1..Len(b) |-> DictOf(e, b[i])]),
     PySeq("ndarray", [i \in 1..Len(b) |-> DictOf(e, b[i])]),
     PySeq("list", [i \in 1..Len(b) |-> PyVec("ndarray", b[i])])}

ValueInputs(e) ==
    UNION {SingleForms(e, r) : r \in Rows(e)}
    \cup UNION {BatchForms(e, b) : b \in Batches(e)}

\* Parameter sets of every type and of lengths n-1, n, n+1; values 1/2.
ShapeLens(e) == {NParams(e) - 1, NParams(e), NParams(e) + 1}
KeysOfLen(e, n) ==
    [j \in 1..n |-> IF j <= NParams(e) THEN astro_param_keys(e)[j] ELSE "extra"]
ShapeSets(e) ==
    UNION {
        {PyVec(t, [j \in 1..n |-> R(1, 2)]) : t \in {"ndarray", "list", "tuple"}}
        \cup {PyDict(KeysOfLen(e, n), [j \in 1..n |-> R(1, 2)]),
              PyDict([KeysOfLen(e, n) EXCEPT ![1] = "foo"], [j \in 1..n |-> R(1, 2)])}
        : n \in ShapeLens(e)}
ShapeInputs(e) ==
    ShapeSets(e)
    \cup {PySeq(t, <<a, b>>) : t \in {"list", "tuple"}, a \in ShapeSets(e), b \in ShapeSets(e)}
    \cup {PyFloat(I(7)), PySeq("list", <<>>), PySeq("ndarray", <<>>)}

InputsDefault == ValueInputs("default") \cup ShapeInputs("default")
InputsRadio == ValueInputs("radio_background") \cup ShapeInputs("radio_background")
Inputs(e) == IF e = "default" THEN InputsDefault ELSE InputsRadio

\* An (n_batch, n_params) float array: what normalize and undo_normalization take.
IsParamArray(e, o) ==
    /\ o.type = "ndarray" /\ o.rank = 2 /\ PyLen(o) > 0
    /\ \A i \in 1..PyLen(o) :
          o.items[i].type = "ndarray" /\ PyLen(o.items[i]) = NParams(e)

----------------------------------------------------------------------------
(* The normalizer's state machine: a caller hands over an object, makes    *)
(* one call on it, and looks at the result.                                *)

NoCall == [op |-> "none", normed |-> FALSE]

\* A path: the name up to the extension, and the extension.
Path(stem, ext) == [stem |-> stem, ext |-> ext]
\* the paths of the directory the outputs are written to
Paths == {Path("test_writing", ""), Path("test_writing", ".npz")}
\* no file at a path; a file not written by the program; a file np.savez
\* wrote, holding the pickled dict as its array "arr_0"
Absent == [kind |-> "absent", arr_0 |-> <<>>]
OtherFile == [kind |-> "other", arr_0 |-> <<>>]
NpzFile(d) == [kind |-> "npz", arr_0 |-> d]
NoFiles == [p \in Paths |-> Absent]

\* The weights repository's tags on the remote, and the ones of an older
\* clone.
RemoteTags == {"v1.0.0", "V2.0", "beta"}
OldTags == {"v1.0.0"}
\* env: cached, the directory data_path/21cmEMU holds a clone; model_ok,
\* saved_model.pb is there with at least 1e6 bytes; tags and head, the
\* clone's tags and what is checked out; disable_network, the
\* configuration's flag; online, the remote can be reached; lfs, git-lfs is
\* installed; pulled, warnings and checkout, what the last call of
\* get_emu_data did: whether it pulled, the warnings it emitted and the name
\* it gave to repo.git.checkout ("none" when it did not get there), and
\* clones, how many times it called git.Repo.clone_from.
\* No data directory yet: nothing cloned, network allowed and reachable.
NoData ==
    [cached |-> FALSE, model_ok |-> FALSE, tags |-> {}, head |-> "none",
     disable_network |-> FALSE, online |-> TRUE, lfs |-> TRUE,
     pulled |-> FALSE, warnings |-> <<>>,
           checkout |-> "none", clones |-> 0]

\* config.py: the values of a configuration, each with its Python type and
\* its text.
PStr(t) == [type |-> "str", v |-> <<t>>]
PBool(b) == [type |-> "bool", v |-> <<IF b THEN "true" ELSE "false">>]
PPath(t) == [type |-> "Path", v |-> <<t>>]
PNone == [type |-> "NoneType", v |-> <<>>]

\* A line of a TOML file: a comment, or a key with its value.
Comment(t) == [kind |-> "comment", key |-> "", val |-> PStr(t)]
Pair(k, val) == [kind |-> "pair", key |-> k, val |-> val]

\* toml's dump_value: a str and a bool are written as such; any other
\* object without __iter__ is written as the string of its repr.
toml_dump_value(val) ==
    CASE val.type = "Path" -> [type |-> "str", v |-> <<"PosixPath('">> \o val.v \o <<"')">>]
      [] OTHER -> val

\* toml.dumps(config): one line per entry, in the mapping's order; an entry
\* whose value is None is left out.
toml_dumps(config) ==
    LET kept == SelectSeq(config, LAMBDA p : p[2].type # "NoneType")
    IN  [i \in 1..Len(kept) |-> Pair(kept[i][1], toml_dump_value(kept[i][2]))]

\* toml.loads(text): the entries of the key lines, in the file's order.
toml_loads(lines) ==
    LET pairs == SelectSeq(lines, LAMBDA l : l.kind = "pair")
    IN  [i \in 1..Len(pairs) |-> <<pairs[i].key, pairs[i].val>>]

\* The config mapping: a dict, as the sequence of its items.
Config_contains(config, key) == \E i \in 1..Len(config) : config[i][1] = key
Config_getitem(config, key) ==
    config[CHOOSE i \in 1..Len(config) : config[i][1] = key][2]
\* self.config[key] = value
DictSet(config, key, value) ==
    IF Config_contains(config, key)
    THEN [i \in 1..Len(config) |->
             IF config[i][1] = key THEN <<key, value>> ELSE config[i]]
    ELSE Append(config, <<key, value>>)
\* del self.config[key]
DictDel(config, key) == SelectSeq(config, LAMBDA p : p[1] # key)
\* self.config.update(**kw)
RECURSIVE DictUpdate(_, _)
DictUpdate(config, kw) ==
    IF kw = <<>> THEN config
    ELSE DictUpdate(DictSet(config, Head(kw)[1], Head(kw)[2]), Tail(kw))

\* A file on disk
NoFile == [exists |-> FALSE, lines |-> <<>>]
TextFile(lines) == [exists |-> TRUE, lines |-> lines]

\* emu21cmfast, after CONFIG = Config() on a new config file: no version is
\* listed, the data path is the user data directory, which exists and is
\* empty. roots are the directories that exist, entries the <<directory,
\* name>> of what they hold.
NoCache ==
    [data_path |-> "user_data_dir", versions |-> <<>>,
     roots |-> {"user_data_dir"}, entries |-> {}]

\* No Config object yet, no config file, no data directory; no use block
\* is open.
NoConfig ==
    [made |-> FALSE, config |-> <<>>, file |-> NoFile, dirs |-> {}, block |-> <<>>]

Init ==
    /\ emulator \in Emulators
    /\ limits = emulator_properties_limits(emulator)
    /\ pc = "idle"
    /\ arg = NoObject
    /\ given = NoObject
    /\ call = NoCall
    /\ ret = NoResult
    /\ raw = <<>>
    /\ pred = <<>>
    /\ stage = "idle"
    /\ rout = <<>>
    /\ files = NoFiles
    /\ cfg = NoConfig
    /\ cache = NoCache
    /\ env = NoData

Supply ==
    /\ pc = "idle"
    /\ \E x \in Inputs(emulator) : arg' = x /\ given' = x
    /\ pc' = "ready"
    /\ UNCHANGED <<emulator, limits, call, ret>>
    /\ UNCHANGED outVars
    /\ UNCHANGED sysVars

CallMakeParamArray ==
    /\ pc = "ready"
    /\ \E normed \in BOOLEAN :
          LET r == make_param_array(emulator, Heap(arg, limits), normed)
          IN  /\ arg' = r.heap.arg
              /\ limits' = r.heap.limits
              /\ ret' = r.ret
              /\ call' = [op |-> "make_param_array", normed |-> normed]
    /\ pc' = "done"
    /\ UNCHANGED <<emulator, given>>
    /\ UNCHANGED outVars
    /\ UNCHANGED sysVars

CallNormalize ==
    /\ pc = "ready"
    /\ IsParamArray(emulator, arg)
    /\ LET r == normalize(emulator, Heap(arg, limits), "arg")
       IN  /\ arg' = r[1].arg
           /\ limits' = r[1].limits
           /\ ret' = Return(GetMat(r[1], r[2]))
    /\ call' = [op |-> "normalize", normed |-> FALSE]
    /\ pc' = "done"
    /\ UNCHANGED <<emulator, given>>
    /\ UNCHANGED outVars
    /\ UNCHANGED sysVars

CallUndoNormalization ==
    /\ pc = "ready"
    /\ IsParamArray(emulator, arg)
    /\ LET r == undo_normalization(emulator, Heap(arg, limits), "arg")
       IN  /\ arg' = r[1].arg
           /\ limits' = r[1].limits
           /\ ret' = Return(GetMat(r[1], r[2]))
    /\ call' = [op |-> "undo_normalization", normed |-> FALSE]
    /\ pc' = "done"
    /\ UNCHANGED <<emulator, given>>
    /\ UNCHANGED outVars
    /\ UNCHANGED sysVars

\* The caller drops the object and the result.
Release ==
    /\ pc = "done"
    /\ pc' = "idle"
    /\ arg' = NoObject
    /\ given' = NoObject
    /\ call' = NoCall
    /\ ret' = NoResult
    /\ UNCHANGED <<emulator, limits>>
    /\ UNCHANGED outVars
    /\ UNCHANGED sysVars

Next ==
    \/ Supply
    \/ CallMakeParamArray
    \/ CallNormalize
    \/ CallUndoNormalization
    \/ Release

Spec == Init /\ [][Next]_vars

----------------------------------------------------------------------------
(* What the claims speak of: the values of the input as the caller wrote   *)
(* them, and the calls as functions of values.                             *)

\* The parameter sets of an input object, in input order.
SetsOf(o) == IF o.rank = 0 THEN <<>> ELSE IF o.rank = 1 THEN <<o>> ELSE o.items
\* A parameter set make_param_array accepts.
AcceptableSet(e, s) ==
    /\ PyLen(s) = NParams(e)
    /\ s.type \in {"dict", "ndarray", "list"}
    /\ s.type = "dict" => \A j \in 1..NParams(e) : HasKey(s, astro_param_keys(e)[j])
Accepted(e, o) ==
    /\ SetsOf(o) # <<>>
    /\ \A i \in 1..Len(SetsOf(o)) : AcceptableSet(e, SetsOf(o)[i])
\* The values of an accepted input, one row per parameter set, each row in
\* the order of astro_param_keys.
RowOf(e, s) ==
    IF s.type = "dict" THEN [j \in 1..NParams(e) |-> DictGet(s, astro_param_keys(e)[j])]
    ELSE s.items
InputValues(e, o) == [i \in 1..Len(SetsOf(o)) |-> RowOf(e, SetsOf(o)[i])]

InUnit(v) == NLe(I(0), v) /\ NLe(v, I(1))
AllInUnit(m) == \A i \in 1..Len(m) : \A j \in 1..Len(m[i]) : InUnit(m[i][j])

\* normalize(m) and undo_normalization(m) of a fresh array m
NormalizeOf(e, m, l) ==
    LET r == normalize(e, Heap(PyArray2(m), l), "arg") IN GetMat(r[1], r[2])
UndoNormalizationOf(e, m, l) ==
    LET r == undo_normalization(e, Heap(PyArray2(m), l), "arg") IN GetMat(r[1], r[2])

Called(op) == pc = "done" /\ call.op = op

----------------------------------------------------------------------------
\* C1: for both variants and every batch x, undo_normalization(normalize(x))
\* equals x in every coordinate of every row, and normalize(
\* undo_normalization(y)) equals y.
C1_RoundTrip ==
    /\ Called("normalize") =>
          UndoNormalizationOf(emulator, ret.val, limits) = ArrayValues(given)
    /\ Called("undo_normalization") =>
          NormalizeOf(emulator, ret.val, limits) = ArrayValues(given)

\* a batch of MaxBatch rows was normalized and every row changed
C1_Witness ==
    /\ Called("normalize")
    /\ Len(ret.val) = MaxBatch
    /\ \A i \in 1..Len(ret.val) : ret.val[i] # ArrayValues(given)[i]

\* C2, as the claim states it: the default variant's make_param_array(...,
\* normed=True) maps the physical vector built as 10**u on coordinates
\* 0, 2, 4, 6 and 1000*u on coordinate 7 (u inside the limits) to
\* (u - lo) / (hi - lo), which lies in [0,1] in every coordinate.
C2_TestVectorNormalized ==
    \A u \in {LoRow("default"), GridRow} :
        ( /\ Called("make_param_array") /\ call.normed
          /\ emulator = "default"
          /\ given \in SingleForms("default", TestVector(u)) )
        => /\ ret.kind = "array"
           /\ AllInUnit(ret.val)
           /\ ret.val[1] = [j \in 1..Len(u) |->
                  NDiv(NSub(u[j], limits[j][1]), NSub(limits[j][2], limits[j][1]))]

\* C3: make_param_array returns the input values unchanged, one row per
\* parameter set, whenever the flag agrees with the state of the input (all
\* values in [0,1] and normed=True, or some value outside and normed=False),
\* for every accepted input form.
C3_IdentityWhenFlagAgrees ==
    ( /\ Called("make_param_array")
      /\ Accepted(emulator, given)
      /\ AllInUnit(InputValues(emulator, given)) = call.normed )
    => ret = Return(InputValues(emulator, given))

\* a batch given as a list of dicts, in physical units, asked for un-normalized
C3_Witness ==
    /\ Called("make_param_array") /\ ~call.normed
    /\ given.type = "list" /\ given.rank = 2 /\ PyLen(given) = MaxBatch
    /\ given.items[1].type = "dict"
    /\ ~AllInUnit(InputValues(emulator, given))
    /\ ret = Return(InputValues(emulator, given))

\* C4: a batch is detected as normalized exactly when every value of every
\* row lies in [0,1]; detected normalized with normed=False the result is
\* undo_normalization(batch); detected not normalized with normed=True it is
\* normalize(batch).
C4_DetectAndReconcile ==
    ( Called("make_param_array") /\ Accepted(emulator, given) )
    => LET m == InputValues(emulator, given)
       IN  /\ params_normed(m) <=> AllInUnit(m)
           /\ (AllInUnit(m) /\ ~call.normed)
                 => ret = Return(UndoNormalizationOf(emulator, m, limits))
           /\ (~AllInUnit(m) /\ call.normed)
                 => ret = Return(NormalizeOf(emulator, m, limits))

\* a batch whose first row lies in [0,1] and whose second does not is normalized
C4_Witness ==
    /\ Called("make_param_array") /\ call.normed
    /\ Accepted(emulator, given)
    /\ Len(InputValues(emulator, given)) = 2
    /\ AllInUnit(<<InputValues(emulator, given)[1]>>)
    /\ ~AllInUnit(<<InputValues(emulator, given)[2]>>)
    /\ ret = Return(NormalizeOf(emulator, InputValues(emulator, given), limits))
    /\ ret.val # InputValues(emulator, given)

\* What make_param_array(..., normed=True) returns for the row alone, as a
\* (1, n) batch.
RowAlone(e, row, l) == make_param_array(e, Heap(PyArray2(<<row>>), l), TRUE).ret

\* C5, as the claim states it: the normalized coordinates of a row do not
\* depend on the batch it is submitted in; the row alone and the row inside
\* a larger batch get the same coordinates.
C5_BatchIndependent ==
    ( Called("make_param_array") /\ call.normed /\ Accepted(emulator, given) )
    => \A i \in 1..Len(InputValues(emulator, given)) :
          /\ ret.kind = "array"
          /\ RowAlone(emulator, InputValues(emulator, given)[i], limits).val[1]
                = ret.val[i]

\* C5, amended: ... provided the row alone and the batch are detected alike
\* (the row has a value outside [0,1], or every value of the batch lies in
\* [0,1]).
C5_BatchIndependentSameState ==
    ( Called("make_param_array") /\ call.normed /\ Accepted(emulator, given) )
    => \A i \in 1..Len(InputValues(emulator, given)) :
          ( AllInUnit(<<InputValues(emulator, given)[i]>>)
              = AllInUnit(InputValues(emulator, given)) )
          => /\ ret.kind = "array"
             /\ RowAlone(emulator, InputValues(emulator, given)[i], limits).val[1]
                   = ret.val[i]

\* a batch of MaxBatch physical rows, two of them different, was normalized
C5_Witness ==
    /\ Called("make_param_array") /\ call.normed /\ Accepted(emulator, given)
    /\ Len(InputValues(emulator, given)) = MaxBatch
    /\ \A i \in 1..MaxBatch : ~AllInUnit(<<InputValues(emulator, given)[i]>>)
    /\ ret.kind = "array"
    /\ ret.val[1] # ret.val[2]
    /\ ret.val[1] # InputValues(emulator, given)[1]

\* The limits in the caller's units: NU_X_THRESH in eV (limits[7, :] *= 1000).
PhysicalLimits(e, l) ==
    IF e = "default"
    THEN [l EXCEPT ![NU_X_THRESH] = <<NMul(@[1], I(1000)), NMul(@[2], I(1000))>>]
    ELSE l

\* C6: for every parameter set with all values in [0,1], in every accepted
\* form, make_param_array(..., normed=False) returns values v with
\* limits[j,0] <= v_j <= limits[j,1] in every coordinate of every row, the
\* limits of coordinate 7 taken times 1000.
C6_RestoredWithinLimits ==
    ( /\ Called("make_param_array") /\ ~call.normed
      /\ Accepted(emulator, given)
      /\ AllInUnit(InputValues(emulator, given)) )
    => /\ ret.kind = "array"
       /\ Len(ret.val) = Len(InputValues(emulator, given))
       /\ \A i \in 1..Len(ret.val) : \A j \in 1..NParams(emulator) :
             /\ NLe(PhysicalLimits(emulator, limits)[j][1], ret.val[i][j])
             /\ NLe(ret.val[i][j], PhysicalLimits(emulator, limits)[j][2])

\* a dict of values 1/2 is restored to the middle of the limits
C6_Witness ==
    /\ Called("make_param_array") /\ ~call.normed
    /\ given.type = "dict" /\ Accepted(emulator, given)
    /\ AllInUnit(InputValues(emulator, given))
    /\ ret = Return(<<PhysicalRow(emulator, MidRow(emulator))>>)

\* The first parameter set, in input order, that make_param_array does not
\* accept (0 when it accepts them all).
FirstRejected(e, o) ==
    LET bad == {i \in 1..Len(SetsOf(o)) : ~AcceptableSet(e, SetsOf(o)[i])}
    IN  IF bad = {} THEN 0 ELSE CHOOSE i \in bad : \A k \in bad : i <= k
WrongLength(e, o) == {i \in 1..Len(SetsOf(o)) : PyLen(SetsOf(o)[i]) # NParams(e)}
WrongType(e, o) ==
    {i \in 1..Len(SetsOf(o)) :
        /\ PyLen(SetsOf(o)[i]) = NParams(e)
        /\ SetsOf(o)[i].type \notin {"dict", "ndarray", "list"}}

\* C7, as the claim states it: the length-mismatch ValueError is raised
\* whenever any parameter set of the input has a length different from the
\* parameter count.
C7_AnyWrongLengthIsValueError ==
    ( Called("make_param_array") /\ WrongLength(emulator, given) # {} )
    => ret = Raise("ValueError")

\* C7, amended: whenever any parameter set has a wrong length the call
\* raises and returns no array; it raises the length-mismatch ValueError
\* when the first parameter set it does not accept is one of wrong length.
C7_FirstWrongLengthIsValueError ==
    ( Called("make_param_array") /\ WrongLength(emulator, given) # {} )
    => /\ ret.kind \in Exceptions
       /\ FirstRejected(emulator, given) \in WrongLength(emulator, given)
             => ret = Raise("ValueError")

\* the second of two lists is too long
C7_Witness ==
    /\ Called("make_param_array")
    /\ given.rank = 2 /\ PyLen(given) = 2
    /\ WrongLength(emulator, given) = {2}
    /\ FirstRejected(emulator, given) = 2
    /\ PyLen(given.items[2]) = NParams(emulator) + 1
    /\ ret = Raise("ValueError")

\* C8, as the claim states it: TypeError is raised when the input has no
\* length, and when any parameter set of correct length is neither a dict,
\* an array nor a list.
C8_AnyWrongTypeIsTypeError ==
    Called("make_param_array")
    => /\ ~HasLen(given) => ret = Raise("TypeError")
       /\ WrongType(emulator, given) # {} => ret = Raise("TypeError")

\* C8, amended: TypeError is raised when the input has no length, and when
\* the first parameter set the call does not accept has the correct length
\* and is neither a dict, an array nor a list; a list of tuples of correct
\* length is rejected with TypeError.
C8_FirstWrongTypeIsTypeError ==
    Called("make_param_array")
    => /\ ~HasLen(given) => ret = Raise("TypeError")
       /\ FirstRejected(emulator, given) \in WrongType(emulator, given)
             => ret = Raise("TypeError")
       /\ WrongType(emulator, given) # {} => ret.kind \in Exceptions

\* a list of two tuples of the right length
C8_Witness ==
    /\ Called("make_param_array")
    /\ given.type = "list" /\ given.rank = 2 /\ PyLen(given) = 2
    /\ \A i \in 1..2 : /\ given.items[i].type = "tuple"
                       /\ PyLen(given.items[i]) = NParams(emulator)
    /\ ret = Raise("TypeError")

\* C9: make_param_array, normalize and undo_normalization have no side
\* effect: after any call, also one that transformed or raised, the caller's
\* input object and the properties' limits hold the values they held before.
C9_NoSideEffect ==
    pc = "done" =>
        /\ arg = given
        /\ limits = emulator_properties_limits(emulator)

\* normalize was called on the caller's array and returned other values
C9_Witness ==
    /\ Called("normalize")
    /\ ret.kind = "array"
    /\ ret.val # ArrayValues(given)

----------------------------------------------------------------------------
(* outputs.py: the default variant's reconstructor.  Its numbers are       *)
(* rationals <<n, d>>; NaN is <<0, 0>>.                                    *)

NaN == <<0, 0>>
Q(n, d) == QNorm(n, d)

\* 10 ** x, for the integer exponents the model's data give (and NaN)
Pow10Q(x) == IF x = NaN THEN NaN
             ELSE IF x[1] >= 0 THEN <<IPow10(x[1]), 1>> ELSE <<1, IPow10(-x[1])>>

\* The number of redshifts of the grid properties.zs, and of samples of a batch.
NZ == 3
MaxSamples == 2
\* The power spectrum's grid: 60 redshifts by 12 wavenumbers.
PS_NZ == 60
PS_NK == 12

\* properties.zs: the redshift grid, increasing
zs == [j \in 1..NZ |-> <<5 + j, 1>>]
uv_lf_zs == <<6, 7, 8, 10>>
\* np.append(np.arange(-25, -15, 1.0), np.arange(-15, -4.5, 0.5))
UVLFs_MUVs ==
    [k \in 1..31 |-> IF k <= 10 THEN <<k - 26, 1>> ELSE Q(k - 41, 2)]

\* The mean and standard deviation of each normalized quantity, as the
\* constants archive holds them under "<name>_mean" and "<name>_std".
properties_mean(name) ==
    CASE name = "PS" -> <<1, 1>>
      [] name = "Tb" -> <<-20, 1>>
      [] name = "Ts" -> <<1, 1>>
      [] name = "tau" -> <<-1, 1>>
      [] name = "UVLFs" -> <<-3, 1>>
properties_std(name) ==
    CASE name = "PS" -> <<1, 1>>
      [] name = "Tb" -> <<5, 2>>
      [] name = "Ts" -> <<2, 1>>
      [] name = "tau" -> <<1, 1>>
      [] name = "UVLFs" -> <<2, 1>>
\* The keys of the constants archive self._data, each as <<prefix, suffix>>
\* of "<prefix>_<suffix>" (no suffix: "").
ArchiveKeys ==
    {<<"zs", "">>, <<"limits", "">>, <<"ks", "">>}
    \cup {<<q, m>> : q \in {"PS", "Tb", "Ts", "tau", "UVLFs"}, m \in {"mean", "std"}}
    \cup {<<q, "err">> : q \in {"PS", "Tb", "Ts", "xHI", "tau", "UVLFs"}}
    \cup {<<"UVLFs", "logerr">>}
\* [k.split("_")[0] for k in self._data if k.endswith("_mean")]
normalized_quantities == {k[1] : k \in {a \in ArchiveKeys : a[2] = "mean"}}
\* dc.fields(DefaultEmulatorOutput)
OutputFields == {"Tb", "xHI", "Ts", "PS", "tau", "UVLFs"}

\* RawEmulatorOutput.nz, nparams
nz == Len(zs)
nparams(output) == Len(output)

\* The length of one sample's flat vector.
OutputLen == 3 * nz + 1 + PS_NZ * PS_NK + 1 + Len(uv_lf_zs) * Len(UVLFs_MUVs)

\* The segments of DefaultRawEmulatorOutput, as sets of positions of a
\* sample's flat vector (Python's index k is position k + 1).
TbAt == 1..nz
xHIAt == (nz + 1)..(2 * nz)
TsAt == (2 * nz + 1)..(3 * nz)
ZTsAt == 3 * nz + 1
PSAt == (3 * nz + 2)..(3 * nz + 1 + PS_NZ * PS_NK)
tauAt == nz * 3 + 1 + PS_NZ * PS_NK + 1
UVLFsAt == (nz * 3 + 1 + PS_NZ * PS_NK + 2)..OutputLen

\* output[:, a:b] of one sample
Segment(v, a, b) == [k \in 1..(b - a + 1) |-> v[a + k - 1]]
\* x.reshape((-1, rows, cols)) of one sample
Reshape(x, rows, cols) == [r \in 1..rows |-> [c \in 1..cols |-> x[(r - 1) * cols + c]]]

\* The properties of DefaultRawEmulatorOutput, per sample.
RawTb(v) == Segment(v, 1, nz)
RawxHI(v) == Segment(v, nz + 1, 2 * nz)
RawTs(v) == Segment(v, 2 * nz + 1, 3 * nz)
reshift_where_Ts_becomes_defined(v) == v[ZTsAt]
\* A variant whose slice starts one index early, on the transition value:
RawPS_from_transition(v) ==
    Reshape(Segment(v, 3 * nz + 1, 3 * nz + PS_NZ * PS_NK), PS_NZ, PS_NK)
RawPS(v) == Reshape(Segment(v, 3 * nz + 2, 3 * nz + 1 + PS_NZ * PS_NK), PS_NZ, PS_NK)
Rawtau(v) == v[tauAt]
\* the columns of UVLFs_MUVs in [-20, -10], in increasing order
MuvKept == {k \in 1..Len(UVLFs_MUVs) :
               QLe(UVLFs_MUVs[k], <<-10, 1>>) /\ QLe(<<-20, 1>>, UVLFs_MUVs[k])}
RECURSIVE Sorted(_)
Sorted(S) == IF S = {} THEN <<>>
             ELSE LET m == CHOOSE x \in S : \A y \in S : x <= y
                  IN  <<m>> \o Sorted(S \ {m})
\* full_UVLFs = self.output[:, nz * 3 + 1 + 60 * 12 + 1 :].reshape(...)
full_UVLFs(v) ==
    Reshape(Segment(v, nz * 3 + 1 + PS_NZ * PS_NK + 2, Len(v)),
            Len(uv_lf_zs), Len(UVLFs_MUVs))
RawUVLFs(v) ==
    LET full == full_UVLFs(v)
        keep == Sorted(MuvKept)
    IN  [r \in 1..Len(uv_lf_zs) |-> [c \in 1..Len(keep) |-> full[r][keep[c]]]]

\* getattr(self, name) of one sample
RawQuantity(v, name) ==
    CASE name = "Tb" -> RawTb(v)
      [] name = "xHI" -> RawxHI(v)
      [] name = "Ts" -> RawTs(v)
      [] name = "PS" -> RawPS(v)
      [] name = "tau" -> Rawtau(v)
      [] name = "UVLFs" -> RawUVLFs(v)

\* The number of dimensions of one sample's array of each quantity.
Rank(name) == CASE name = "tau" -> 0
                [] name \in {"PS", "UVLFs"} -> 2
                [] OTHER -> 1
Map1(F(_), x) == [j \in 1..Len(x) |-> F(x[j])]
Map2(F(_), x) == [r \in 1..Len(x) |-> [c \in 1..Len(x[r]) |-> F(x[r][c])]]
\* an elementwise operation on one sample's array of the quantity
MapOver(F(_), name, x) ==
    CASE Rank(name) = 0 -> F(x)
      [] Rank(name) = 1 -> Map1(F, x)
      [] Rank(name) = 2 -> Map2(F, x)

RaiseMsg(exc, msg) == [kind |-> exc, val |-> msg]

\* A variant that scales by the standard deviation and adds no mean:
AffineNoMean(name, x) == QMul(properties_std(name), x)

\* mean + std * x
Affine(name, x) == QAdd(properties_mean(name), QMul(properties_std(name), x))

\* renormalize(name) of one sample: a new array, or the ValueError
\* f"Cannot renormalize {name}. It is not a normalized quantity."
renormalize(v, name) ==
    IF name \notin normalized_quantities
    THEN RaiseMsg("ValueError",
                  <<"Cannot renormalize ", name, ". It is not a normalized quantity.">>)
    ELSE LET F(x) == Affine(name, x)
         IN  Return(MapOver(F, name, RawQuantity(v, name)))

\* np.argmin(abs(zs - z)): the first index of the smallest distance
QAbs(x) == IF x[1] < 0 THEN QNeg(x) ELSE x
ArgMinDistance(grid, z) ==
    CHOOSE j \in 1..Len(grid) :
        /\ \A k \in 1..Len(grid) : QLe(QAbs(QSub(grid[j], z)), QAbs(QSub(grid[k], z)))
        /\ \A k \in 1..(j - 1) : ~QLe(QAbs(QSub(grid[k], z)), QAbs(QSub(grid[j], z)))

\* The body of the masking loop for sample i.  st.output is the raw array,
\* of which out["xHI"] is a view (a write to out["xHI"] is a write to it);
\* st.Ts is out["Ts"], the array renormalize("Ts") made.
\* A variant that masks the transition's index too:
MaskSampleInclusive(st, i) ==
    LET zbin == ArgMinDistance(zs, reshift_where_Ts_becomes_defined(st.output[i]))
    IN  [output |-> IF QLt(RawxHI(st.output[i])[zbin], Q(1, 10))
                    THEN [st.output EXCEPT ![i] =
                             [k \in 1..Len(@) |->
                                 IF k \in xHIAt /\ k - nz <= zbin THEN QZero ELSE @[k]]]
                    ELSE st.output,
         Ts |-> [st.Ts EXCEPT ![i] = [j \in 1..nz |-> IF j <= zbin THEN NaN ELSE @[j]]]]

\* A variant that masks Ts under the same condition as xHI:
MaskSampleSymmetric(st, i) ==
    LET zbin == ArgMinDistance(zs, reshift_where_Ts_becomes_defined(st.output[i]))
        low  == QLt(RawxHI(st.output[i])[zbin], Q(1, 10))
    IN  [output |-> IF low
                    THEN [st.output EXCEPT ![i] =
                             [k \in 1..Len(@) |->
                                 IF k \in xHIAt /\ k - nz < zbin THEN QZero ELSE @[k]]]
                    ELSE st.output,
         Ts |-> IF low
                THEN [st.Ts EXCEPT ![i] = [j \in 1..nz |-> IF j < zbin THEN NaN ELSE @[j]]]
                ELSE st.Ts]

MaskSample(st, i) ==
    LET zbin == ArgMinDistance(zs, reshift_where_Ts_becomes_defined(st.output[i]))
    IN  [output |-> IF QLt(RawxHI(st.output[i])[zbin], Q(1, 10))
                    THEN [st.output EXCEPT ![i] =
                             [k \in 1..Len(@) |->
                                 IF k \in xHIAt /\ k - nz < zbin THEN QZero ELSE @[k]]]
                    ELSE st.output,
         Ts |-> [st.Ts EXCEPT ![i] = [j \in 1..nz |-> IF j < zbin THEN NaN ELSE @[j]]]]

\* for i in range(self.nparams): ...
RECURSIVE MaskLoop(_, _)
MaskLoop(st, i) ==
    IF i > nparams(st.output) THEN st ELSE MaskLoop(MaskSample(st, i), i + 1)

\* A variant that returns the arrays as they are:
SqueezeNothing(x) == x

\* np.squeeze of an array with a leading batch dimension (the other
\* dimensions of the model's arrays are longer than 1)
Squeeze(x) == IF Len(x) = 1 THEN x[1] ELSE x

\* DefaultEmulatorOutput(**out).squeeze()
squeeze(out) == [k \in DOMAIN out |-> Squeeze(out[k])]

\* A variant that takes UVLFs for log-scaled too:
Undo_log10_all(out) ==
    [k \in DOMAIN out |->
        IF k \in {"PS", "Ts", "tau", "UVLFs"}
        THEN [i \in 1..Len(out[k]) |-> MapOver(Pow10Q, k, out[k][i])]
        ELSE out[k]]

\* out["PS"] = 10 ** out["PS"], and the same for "Ts" and "tau"
Undo_log10(out) ==
    [k \in DOMAIN out |->
        IF k \in {"PS", "Ts", "tau"}
        THEN [i \in 1..Len(out[k]) |-> MapOver(Pow10Q, k, out[k][i])]
        ELSE out[k]]

\* get_renormalized(): [output, out], the raw array after the call and the
\* DefaultEmulatorOutput returned.
get_renormalized(output) ==
    LET n      == nparams(output)
        renorm == [k \in normalized_quantities |->
                      [i \in 1..n |-> renormalize(output[i], k).val]]
        st     == MaskLoop([output |-> output, Ts |-> renorm["Ts"]], 1)
        \* out = {**renorm, **other} after the loop: out["Ts"] was written
        \* by it, and the other fields are views of the raw array
        out    == [k \in OutputFields |->
                      IF k = "Ts" THEN st.Ts
                      ELSE IF k \in normalized_quantities THEN renorm[k]
                      ELSE [i \in 1..n |-> RawQuantity(st.output[i], k)]]
    IN  [output |-> st.output, out |-> squeeze(Undo_log10(out))]

----------------------------------------------------------------------------
(* The predictions the network hands to the reconstructor. *)

\* the transition values: below, on, between and above the grid's points
TransitionValues ==
    {QSub(zs[1], <<1, 1>>)} \cup {zs[j] : j \in 1..NZ}
    \cup {QAdd(zs[j], Q(1, 2)) : j \in 1..NZ}
xHIProfiles ==
    {[j \in 1..NZ |-> Q(j, NZ + 1)],
     [j \in 1..NZ |-> Q(1, 20)],
     [j \in 1..NZ |-> Q(1, 10)],
     [j \in 1..NZ |-> IF j % 2 = 1 THEN Q(1, 2) ELSE Q(1, 20)]}
TsProfiles == {[j \in 1..NZ |-> <<j - 2, 1>>], [j \in 1..NZ |-> <<0, 1>>]}

\* One sample's flat vector.
SampleOf(z, x, t) ==
    [k \in 1..OutputLen |->
        IF k \in TbAt THEN Q(k, 2)
        ELSE IF k \in xHIAt THEN x[k - nz]
        ELSE IF k \in TsAt THEN t[k - 2 * nz]
        ELSE IF k = ZTsAt THEN z
        ELSE IF k \in PSAt THEN <<(k % 3) - 1, 1>>
        ELSE IF k = tauAt THEN <<-1, 1>>
        ELSE Q(-(k % 5), 2)]
Samples == {SampleOf(z, x, t) : z \in TransitionValues, x \in xHIProfiles, t \in TsProfiles}
FillSamples ==
    {SampleOf(QAdd(zs[1], Q(1, 2)), [j \in 1..NZ |-> Q(1, 20)], [j \in 1..NZ |-> <<0, 1>>]),
     SampleOf(zs[NZ], [j \in 1..NZ |-> Q(j, NZ + 1)], [j \in 1..NZ |-> <<j - 2, 1>>])}
Predictions ==
    {BatchOf(v, f, n, p) : v \in Samples, f \in FillSamples,
                           n \in 1..MaxSamples, p \in {1, MaxSamples}}

InitOut ==
    /\ emulator = "default"
    /\ limits = emulator_properties_limits(emulator)
    /\ pc = "idle"
    /\ arg = NoObject
    /\ given = NoObject
    /\ call = NoCall
    /\ ret = NoResult
    /\ raw = <<>>
    /\ pred = <<>>
    /\ stage = "idle"
    /\ rout = <<>>
    /\ files = NoFiles
    /\ cfg = NoConfig
    /\ cache = NoCache
    /\ env = NoData

\* The network's prediction is wrapped: DefaultRawEmulatorOutput(emu_pred).
Predict ==
    /\ stage = "idle"
    /\ \E o \in Predictions : raw' = o /\ pred' = o
    /\ stage' = "raw"
    /\ rout' = <<>>
    /\ UNCHANGED inVars
    /\ UNCHANGED sysVars

\* get_renormalized(), on a fresh raw output or once more on the same one.
GetRenormalized ==
    /\ stage \in {"raw", "done"}
    /\ LET r == get_renormalized(raw)
       IN  raw' = r.output /\ rout' = r.out
    /\ stage' = "done"
    /\ call' = [op |-> "get_renormalized", normed |-> FALSE]
    /\ arg' = NoObject
    /\ ret' = NoResult
    /\ UNCHANGED <<pred, emulator, pc, given, limits>>
    /\ UNCHANGED sysVars

\* the names renormalize is asked for: the output's fields and a stranger
QuantityNames == OutputFields \cup {"foo"}
\* The classes of raw outputs: the base class and the two variants'.
\* Only DefaultRawEmulatorOutput defines renormalize.
RawOutputClasses ==
    {"RawEmulatorOutput", "DefaultRawEmulatorOutput", "RadioRawEmulatorOutput"}
HasRenormalize(cls) == cls = "DefaultRawEmulatorOutput"
\* a method call's receiver class and its argument
MethodCall(cls, name) ==
    [type |-> "call", rank |-> 0, keys |-> <<cls>>, items |-> <<name>>]

\* cls(output).renormalize(name): the arrays of all samples, or the error;
\* a class without the method gives Python's AttributeError.
Renormalize ==
    /\ stage = "raw"
    /\ \E name \in QuantityNames, cls \in RawOutputClasses :
          LET r == [i \in 1..nparams(raw) |-> renormalize(raw[i], name)]
          IN  /\ arg' = MethodCall(cls, name)
              /\ ret' = IF ~HasRenormalize(cls)
                        THEN RaiseMsg("AttributeError", <<cls, "renormalize">>)
                        ELSE IF r[1].kind = "array"
                        THEN Return([i \in 1..nparams(raw) |-> r[i].val])
                        ELSE r[1]
    /\ call' = [op |-> "renormalize", normed |-> FALSE]
    /\ stage' = "renormalized"
    /\ UNCHANGED <<raw, pred, rout, emulator, pc, given, limits>>
    /\ UNCHANGED sysVars

\* The caller drops the raw output and what was made of it.
Discard ==
    /\ stage \in {"renormalized", "predicted", "done", "done_radio"}
    /\ stage' = "idle"
    /\ raw' = <<>> /\ pred' = <<>> /\ rout' = <<>>
    /\ call' = NoCall
    /\ arg' = NoObject
    /\ given' = NoObject
    /\ ret' = NoResult
    /\ UNCHANGED <<emulator, pc, limits>>
    /\ UNCHANGED sysVars

----------------------------------------------------------------------------
(* emulator.py: the class Emulator.  It keeps its own copies of the        *)
(* archive's numbers (zs, limits, means, stds, errors).                    *)

\* np.log10 of a power of ten (of those the numbers of the model can hold)
Log10(x) == I(CHOOSE k \in (-9..9) \cup (38..46) : Pow10(k) = x)

\* self.PS_err, Tb_err, Ts_err, xHI_err, tau_err: the mean errors on the
\* test set, as the archive holds them
Emulator_err(name) ==
    CASE name = "PS" -> <<5, 1>>
      [] name = "Tb" -> <<1, 1>>
      [] name = "Ts" -> <<2, 1>>
      [] name = "xHI" -> <<1, 100>>
      [] name = "tau" -> <<3, 1>>
\* self.zs_cut = self.zs[:60]; self.ks_cut = ks[1:-3]
zs_cut == [j \in 1..(IF NZ < PS_NZ THEN NZ ELSE PS_NZ) |-> zs[j]]
ks_cut == [c \in 1..PS_NK |-> Q(c, 10)]

\* Emulator.format_theta: the normalized theta, a 2-D array, or the error
\* raised.  (The parameters in physical units, which it returns as well,
\* only serve to name a file when io_options asks for one.)
Emulator_format_theta(astro_params) ==
    LET keys == astro_param_keys("default")
        lim  == DefaultLimits
        \* theta as a 2-D array: a 1-D one is reshaped to one row
        rows == IF astro_params.rank = 2 THEN ArrayValues(astro_params)
                ELSE IF astro_params.type = "dict"
                THEN <<[j \in 1..Len(keys) |-> DictGet(astro_params, keys[j])]>>
                ELSE <<astro_params.items>>
        unit == /\ NLe(ArrayMax(rows), I(1))
                /\ NLe(I(0), ArrayMin(rows))
        normal(row) ==
            [j \in 1..Len(row) |->
                LET v == IF j \in LogCols THEN Log10(row[j])
                         ELSE IF j = NU_X_THRESH THEN NDiv(row[j], I(1000))
                         ELSE row[j]
                IN  NDiv(NSub(v, lim[j][1]), NSub(lim[j][2], lim[j][1]))]
    IN  IF astro_params.type = "dict" /\ astro_params.rank = 1
        THEN IF \E j \in 1..Len(keys) : ~HasKey(astro_params, keys[j])
             THEN Raise("KeyError")
             ELSE IF unit THEN Return(rows)
             ELSE Return([i \in 1..Len(rows) |-> normal(rows[i])])
        ELSE IF astro_params.type = "ndarray"
        THEN IF astro_params.rank = 2 /\ PyLen(astro_params) > 1
                /\ astro_params.items[1].type # "ndarray"
             THEN Raise("TypeError")
             ELSE IF unit THEN Return(rows)
             ELSE Return([i \in 1..Len(rows) |-> normal(rows[i])])
        ELSE Raise("TypeError")

\* Emulator.get_errors(summaries, theta)
Emulator_get_errors(summaries, single) ==
    LET scale(e, name, x) ==
            LET F(y) == QMul(QDiv(e, <<100, 1>>), y)
            IN  IF single THEN MapOver(F, name, x)
                ELSE [i \in 1..Len(x) |-> MapOver(F, name, x[i])]
    IN  [delta_err |-> scale(Emulator_err("PS"), "PS", summaries.delta),
         brightness_temp_err |-> Emulator_err("Tb"),
         xHI_err |-> Emulator_err("xHI"),
         spin_temp_err |-> Emulator_err("Ts"),
         tau_e_err |-> scale(Emulator_err("tau"), "tau", summaries.tau_e)]

\* Emulator.predict(astro_params), emu_pred being what the network gives
\* for theta: the value returned (one dict), or the error raised.
Emulator_predict(astro_params, emu_pred) ==
    LET ft == Emulator_format_theta(astro_params)
        n  == Len(emu_pred)
        de(name, x) == Affine(name, x)
        PS_pred  == [i \in 1..n |-> [r \in 1..PS_NZ |-> [c \in 1..PS_NK |->
                        Affine("PS", RawPS(emu_pred[i])[r][c])]]]
        Ts_pred  == [i \in 1..n |-> [j \in 1..nz |-> Affine("Ts", RawTs(emu_pred[i])[j])]]
        Tb_pred  == [i \in 1..n |-> [j \in 1..nz |-> Affine("Tb", RawTb(emu_pred[i])[j])]]
        tau_pred == [i \in 1..n |-> Affine("tau", Rawtau(emu_pred[i]))]
        \* UVLFs[:, i, :] = UVLFs_pred[:, current_idx : current_idx + len(MUVs)]
        UVLFs    == [i \in 1..n |-> [r \in 1..Len(uv_lf_zs) |-> [c \in 1..Len(UVLFs_MUVs) |->
                        Affine("UVLFs", full_UVLFs(emu_pred[i])[r][c])]]]
        zbin(i)  == ArgMinDistance(zs, reshift_where_Ts_becomes_defined(emu_pred[i]))
        xHI_pred_fix ==
            [i \in 1..n |-> [j \in 1..nz |->
                IF QLt(RawxHI(emu_pred[i])[zbin(i)], Q(1, 10)) /\ j < zbin(i)
                THEN QZero ELSE RawxHI(emu_pred[i])[j]]]
        Ts_pred_fix ==
            [i \in 1..n |-> [j \in 1..nz |-> IF j < zbin(i) THEN NaN ELSE Ts_pred[i][j]]]
        \* if theta.shape[0] == 1: the [0, ...] of each array
        one(x) == IF n = 1 THEN x[1] ELSE x
        summaries ==
            [delta |-> one([i \in 1..n |-> Map2(Pow10Q, PS_pred[i])]),
             k |-> ks_cut,
             brightness_temp |-> one(Tb_pred),
             spin_temp |-> one([i \in 1..n |-> Map1(Pow10Q, Ts_pred_fix[i])]),
             tau_e |-> one([i \in 1..n |-> Pow10Q(tau_pred[i])]),
             Muv |-> UVLFs_MUVs,
             lfunc |-> UVLFs,
             uv_lfs_redshifts |-> uv_lf_zs,
             ps_redshifts |-> zs_cut,
             redshifts |-> zs,
             xHI |-> one(xHI_pred_fix)]
        errors == Emulator_get_errors(summaries, n = 1)
        \* output = summaries.copy(); output[k] = errors[k]
        output ==
            [key \in DOMAIN summaries \cup DOMAIN errors |->
                IF key \in DOMAIN errors THEN errors[key] ELSE summaries[key]]
    IN  IF ft.kind # "array" THEN ft
        ELSE [kind |-> "dict", val |-> output]

\* What predict is called with, and what the network answers for n rows.
PredictInputs ==
    LET u == UnitRow("default", R(1, 2))
        w == UnitRow("default", R(1, 4))
    IN  {PyVec("ndarray", u), DictOf("default", u), DictReversed("default", w),
         PyArray2(<<u>>), PyArray2(<<u, w>>), PyArray2(<<w, u>>),
         PyVec("ndarray", TestVector(GridRow)), PyVec("list", u),
         PySeq("list", <<PyVec("list", u), PyVec("list", w)>>)}
NetworkPredictions(n) == {BatchOf(f, g, n, 1) : f \in FillSamples, g \in FillSamples}

\* emu.predict(astro_params)
EmulatorPredict ==
    /\ stage = "idle"
    /\ \E a \in PredictInputs :
          LET ft == Emulator_format_theta(a)
          IN  /\ arg' = a
              /\ given' = a
              /\ IF ft.kind = "array"
                 THEN \E o \in NetworkPredictions(Len(ft.val)) :
                         /\ pred' = o
                         /\ raw' = o
                         /\ ret' = Emulator_predict(a, o)
                 ELSE /\ pred' = <<>>
                      /\ raw' = <<>>
                      /\ ret' = ft
    /\ call' = [op |-> "predict", normed |-> FALSE]
    /\ stage' = "predicted"
    /\ UNCHANGED <<emulator, pc, limits, rout>>
    /\ UNCHANGED sysVars

----------------------------------------------------------------------------
(* models/radio_background/model.py: Radio_Emulator, and outputs.py:       *)
(* RadioRawEmulatorOutput.  A value of the network is <<branch, index,     *)
(* input>>: the branch that emitted it, its place in the branch's output   *)
(* and the parameter set it was computed from.                             *)

\* out_len and ps_inp_shape, the defaults of Radio_Emulator.__init__
out_len == <<103, 103, 103, 25 * 20, 1>>
ps_inp_shape == <<64, 5, 4>>

\* nn.ConvTranspose2d(in_ch, out_ch, kernel_size, stride=1, padding=0) on a
\* (channels, height, width) input: the shape of its output
ConvTranspose2d(shape, out_ch, kernel_size) ==
    <<out_ch, shape[2] + kernel_size[1] - 1, shape[3] + kernel_size[2] - 1>>
\* CNN(nconvs=2, ...): conv_in, then conv_out
CNN(shape, hid_ch, out_ch, kernel_size) ==
    ConvTranspose2d(ConvTranspose2d(shape, hid_ch, kernel_size), out_ch, kernel_size)
cnn1(shape) == CNN(shape, 64, 64, <<2, 2>>)
cnn2(shape) == CNN(shape, 64, 64, <<3, 2>>)
cnn2v2(shape) == CNN(shape, 32, 32, <<3, 3>>)
cnn3(shape) == CNN(shape, 16, 1, <<3, 3>>)
\* the shape of ps in forward
ps_shape == cnn3(cnn2v2(cnn2(cnn2(cnn1(cnn1(ps_inp_shape))))))

\* the output of a fully connected branch for the parameter set x
Branch(name, len, x) == [j \in 1..len |-> <<name, j, x>>]
\* ps_pred = torch.reshape(ps, (ps.shape[0], ps.shape[-2] * ps.shape[-1])):
\* the rows of the image one after the other
ps_pred(x) == Branch("PS", ps_shape[2] * ps_shape[3], x)

\* A variant that puts tau before the power spectrum:
Radio_Emulator_forward_tau_first(x) ==
    Branch("Tb", out_len[1], x) \o Branch("Tr", out_len[2], x)
    \o Branch("xHI", out_len[3], x) \o Branch("tau", out_len[5], x) \o ps_pred(x)

\* Radio_Emulator.forward, one row:
\* torch.cat((Tb_pred, Tr_pred, xHI_pred, ps_pred, tau_pred), 1)
Radio_Emulator_forward(x) ==
    Branch("Tb", out_len[1], x) \o Branch("Tr", out_len[2], x)
    \o Branch("xHI", out_len[3], x) \o ps_pred(x) \o Branch("tau", out_len[5], x)

\* RadioBackgroundEmulatorProperties: the lengths of zs, PS_zs and PS_ks
Radio_nz == 103
Radio_PS_nz == 25
Radio_PS_nk == 20

\* The properties of RadioRawEmulatorOutput, per sample.
RadioRaw(v, name) ==
    CASE name = "Tb" -> Segment(v, 1, Radio_nz)
      [] name = "Tr" -> Segment(v, Radio_nz + 1, 2 * Radio_nz)
      [] name = "xHI" -> Segment(v, 2 * Radio_nz + 1, 3 * Radio_nz)
      \* self.output[:, 3 * self.nz : -1].reshape((n, PS_nz, PS_nk))
      [] name = "PS" -> Reshape(Segment(v, 3 * Radio_nz + 1, Len(v) - 1),
                                Radio_PS_nz, Radio_PS_nk)
      \* self.output[:, -1]
      [] name = "tau" -> v[Len(v)]
RadioFields == {"Tb", "Tr", "xHI", "PS", "tau"}

\* the parameter sets given to the radio model, by number
RadioInputs == 1..3

\* RadioRawEmulatorOutput(model(theta)) for a batch of one or two rows
RadioPredict ==
    /\ stage = "idle"
    /\ \E o \in {<<Radio_Emulator_forward(x)>> : x \in RadioInputs}
               \cup {<<Radio_Emulator_forward(x), Radio_Emulator_forward(y)>> :
                        x \in RadioInputs, y \in RadioInputs} :
          raw' = o /\ pred' = o
    /\ stage' = "radio"
    /\ rout' = <<>>
    /\ UNCHANGED inVars
    /\ UNCHANGED sysVars

\* raw.Tb, raw.Tr, raw.xHI, raw.PS and raw.tau are read
RadioRead ==
    /\ stage = "radio"
    /\ rout' = [k \in RadioFields |-> [i \in 1..Len(raw) |-> RadioRaw(raw[i], k)]]
    /\ stage' = "done_radio"
    /\ UNCHANGED <<raw, pred>>
    /\ UNCHANGED inVars
    /\ UNCHANGED sysVars

NextOut ==
    \/ Predict \/ Renormalize \/ GetRenormalized \/ EmulatorPredict \/ Discard
    \/ RadioPredict \/ RadioRead

SpecOut == InitOut /\ [][NextOut]_vars

----------------------------------------------------------------------------
\* The arrays returned for sample i: the batch dimension is there for
\* batches of more than one sample.
OutOf(name, i) == IF Len(pred) = 1 THEN rout[name] ELSE rout[name][i]
\* the index of the redshift grid nearest to z, the first one of equals
Nearest(z) ==
    CHOOSE j \in 1..NZ :
        \A k \in 1..NZ :
            LET dj == QAbs(QSub(zs[j], z))
                dk == QAbs(QSub(zs[k], z))
            IN  QLt(dj, dk) \/ (dj = dk /\ j <= k)

\* C10: for every sample i, with zbin the index of the redshift grid
\* nearest to the sample's transition value: Ts is NaN at every index before
\* zbin, whatever xHI is; xHI is zero-filled before zbin when the predicted
\* xHI at zbin is below 0.1, and only then: otherwise it equals the
\* predicted xHI at every index; from zbin on both keep their predicted
\* values (Ts de-normalized, as 10 ** (mean + std * raw)).
C10_ValidityMask ==
    stage = "done" =>
        \A i \in 1..Len(pred) :
            LET zbin == Nearest(reshift_where_Ts_becomes_defined(pred[i]))
                x    == RawxHI(pred[i])
                t    == RawTs(pred[i])
            IN  /\ \A j \in 1..(zbin - 1) : OutOf("Ts", i)[j] = NaN
                /\ QLt(x[zbin], Q(1, 10))
                      => \A j \in 1..(zbin - 1) : OutOf("xHI", i)[j] = QZero
                /\ ~QLt(x[zbin], Q(1, 10))
                      => \A j \in 1..NZ : OutOf("xHI", i)[j] = x[j]
                /\ \A j \in zbin..NZ :
                      /\ OutOf("xHI", i)[j] = x[j]
                      /\ OutOf("Ts", i)[j] = Pow10Q(Affine("Ts", t[j]))

\* a batch of two: the first sample's xHI was zero-filled where it was
\* predicted positive, the second's was left as predicted, with Ts NaN
C10_Witness ==
    /\ stage = "done" /\ Len(pred) = 2
    /\ LET z1 == Nearest(reshift_where_Ts_becomes_defined(pred[1]))
           z2 == Nearest(reshift_where_Ts_becomes_defined(pred[2]))
       IN  /\ z1 > 1 /\ z2 > 1
           /\ QLt(RawxHI(pred[1])[z1], Q(1, 10))
           /\ RawxHI(pred[1])[1] # QZero /\ rout.xHI[1][1] = QZero
           /\ ~QLt(RawxHI(pred[2])[z2], Q(1, 10))
           /\ rout.xHI[2] = RawxHI(pred[2])
           /\ rout.Ts[2][1] = NaN

----------------------------------------------------------------------------
(* outputs.py: EmulatorOutput.write.  An optional argument is              *)
(* [given, val]: given is FALSE for None.                                  *)

\* the elements of a list
Range(f) == {f[k] : k \in DOMAIN f}
None == [given |-> FALSE, val |-> <<>>]
Some(v) == [given |-> TRUE, val |-> v]
ReturnNone == [kind |-> "None", val |-> <<>>]

\* getattr(self, k) on a DefaultEmulatorOutput: a field, a property, or
\* the AttributeError
HasAttr(k) == k \in OutputFields \cup {"redshifts"}
GetAttr(self, k) == IF k \in OutputFields THEN self[k] ELSE zs

\* The file np.savez(fname, ...) writes: ".npz" is appended to a name
\* that does not end with it.
SavezPath(fname) == IF fname.ext = ".npz" THEN fname ELSE Path(fname.stem, ".npz")

\* A variant that writes every field, whatever store is:
write_ignoring_store(self, fs, fname, theta, store, clobber) ==
    IF fs[fname].kind # "absent" /\ ~clobber
    THEN [files |-> fs, ret |-> RaiseMsg("ValueError", <<"File ", fname, " exists and clobber=False.">>)]
    ELSE LET names == OutputFields
             keys == names \cup (IF theta.given THEN {"inputs"} ELSE {})
             out == [k \in keys |-> IF k = "inputs" /\ theta.given THEN theta.val
                                    ELSE GetAttr(self, k)]
         IN  [files |-> [fs EXCEPT ![SavezPath(fname)] = NpzFile(out)],
              ret |-> ReturnNone]

\* EmulatorOutput.write(fname, theta, store, clobber): [files, ret]
write(self, fs, fname, theta, store, clobber) ==
    LET \* if store is None: store = list(self.__dict__.keys())
        names == IF store.given THEN Range(store.val) ELSE OutputFields
    IN  \* if pth.exists() and not clobber
        IF fs[fname].kind # "absent" /\ ~clobber
        THEN [files |-> fs,
              ret |-> RaiseMsg("ValueError",
                               <<"File ", fname, " exists and clobber=False.">>)]
        \* out = {k: getattr(self, k) for k in store}
        ELSE IF \E k \in names : ~HasAttr(k)
        THEN [files |-> fs,
              ret |-> RaiseMsg("AttributeError",
                               <<CHOOSE k \in names : ~HasAttr(k)>>)]
        ELSE LET keys == names \cup (IF theta.given THEN {"inputs"} ELSE {})
                 \* out["inputs"] = theta comes last and wins
                 out == [k \in keys |-> IF k = "inputs" /\ theta.given THEN theta.val
                                        ELSE GetAttr(self, k)]
             IN  \* np.savez(fname, out)
                 [files |-> [fs EXCEPT ![SavezPath(fname)] = NpzFile(out)],
                  ret |-> ReturnNone]

\* The arguments write is called with.
Stores == {None, Some(<<"PS">>), Some(<<"xHI", "tau">>), Some(<<"redshifts", "Tb">>),
           Some(<<"foo">>), Some(<<>>)}
Thetas == {None, Some(<< <<Q(1, 2), Q(1, 4)>> >>)}
WriteArgs(fname, theta, store, clobber) ==
    [type |-> "call", rank |-> 0, keys |-> <<"fname", "theta", "store", "clobber">>,
     items |-> <<fname, theta, store, clobber>>]

\* The outputs that are written: one sample's, and a batch of two's.
WrittenPredictions ==
    {BatchOf(f, f, n, 1) : f \in FillSamples, n \in 1..2}

InitWrite ==
    /\ emulator = "default"
    /\ limits = emulator_properties_limits(emulator)
    /\ pc = "idle"
    /\ arg = NoObject
    /\ given = NoObject
    /\ call = NoCall
    /\ ret = NoResult
    /\ \E o \in WrittenPredictions :
          /\ pred = o
          /\ raw = get_renormalized(o).output
          /\ rout = get_renormalized(o).out
    /\ stage = "done"
    /\ files = NoFiles
    /\ cfg = NoConfig
    /\ cache = NoCache
    /\ env = NoData

\* output.write(fname, theta=..., store=..., clobber=...)
Write ==
    /\ stage = "done"
    /\ \E fname \in Paths, theta \in Thetas, store \in Stores, clobber \in BOOLEAN :
          LET r == write(rout, files, fname, theta, store, clobber)
          IN  /\ files' = r.files
              /\ ret' = r.ret
              /\ arg' = WriteArgs(fname, theta, store, clobber)
    /\ call' = [op |-> "write", normed |-> FALSE]
    /\ UNCHANGED <<emulator, pc, given, limits, env, cfg, cache>>
    /\ UNCHANGED outVars

\* Something else than the program creates a file in the directory.
Touch ==
    /\ \E p \in Paths : files[p].kind = "absent" /\ files' = [files EXCEPT ![p] = OtherFile]
    /\ call' = NoCall
    /\ arg' = NoObject
    /\ ret' = NoResult
    /\ UNCHANGED <<emulator, pc, given, limits, env, cfg, cache>>
    /\ UNCHANGED outVars

NextWrite == Write \/ Touch

SpecWrite == InitWrite /\ [][NextWrite]_vars

----------------------------------------------------------------------------
(* get_emulator.py: get_emu_data.                                          *)

\* str.lower() on the names of the model
Lower(name) ==
    CASE name = "V2.0" -> "v2.0"
      [] name = "V1.0.0" -> "v1.0.0"
      [] name = "Latest" -> "latest"
      [] OTHER -> name
\* name.startswith("v")
StartsWithV(name) == name \in {"v1.0.0", "v2.0"}

\* A variant that lists every tag:
versions_of_all_tags(tags) == {Lower(t) : t \in tags}

\* sorted([tag.name.lower() for tag in repo.tags
\*         if tag.name.lower().startswith("v")]), as a set
versions(tags) == {Lower(t) : t \in {u \in tags : StartsWithV(Lower(u))}}

\* A variant that does not look at the configuration before pulling:
pull_ignoring_config(e) ==
    IF e.online /\ e.head = "main"
    THEN [e EXCEPT !.pulled = TRUE, !.tags = RemoteTags]
    ELSE [e EXCEPT !.warnings = Append(@, "Skipping the pulling step.")]

\* The try block: repo.remotes.origin.pull(), unless the network is
\* disabled; any exception (network disabled, remote not reached, HEAD not
\* on a branch) becomes a warning.
pull(e) ==
    IF ~e.disable_network /\ e.online /\ e.head = "main"
    THEN [e EXCEPT !.pulled = TRUE, !.tags = RemoteTags]
    ELSE [e EXCEPT !.warnings = Append(@, "Skipping the pulling step.")]

\* A variant that only looks for the directory:
download_present(e) == e.cached

\* The download check passes: saved_model.pb exists and has at least 1e6
\* bytes.
download_ok(e) == e.model_ok

\* get_emu_data(version): [env, ret]
get_emu_data(e0, version) ==
    LET \* the clone of a missing directory, when the network is allowed
        cloning == ~e0.cached /\ ~e0.disable_network
        e  == [e0 EXCEPT !.pulled = FALSE, !.warnings = <<>>, !.checkout = "none",
                         !.clones = IF cloning THEN 1 ELSE 0]
        e1 == IF cloning /\ e.online
              THEN [e EXCEPT !.cached = TRUE, !.model_ok = e.lfs,
                             !.tags = RemoteTags, !.head = "main"]
              ELSE e
        e2 == pull(e1)
        vs == versions(e2.tags)
    IN  IF cloning /\ ~e.online
        THEN [env |-> e, ret |-> RaiseMsg("GitCommandError", <<"clone">>)]
        \* if not p.exists() or p.stat().st_size < 1e6
        ELSE IF ~download_ok(e1)
        THEN [env |-> e1, ret |-> RaiseMsg("RuntimeError", <<"not cloned properly">>)]
        ELSE IF version = "latest"
        THEN [env |-> [e2 EXCEPT !.head = "main", !.checkout = "main"],
              ret |-> ReturnNone]
        ELSE IF Lower(version) \in vs
        THEN \* repo.git.checkout(version): the name as given must be a ref
             IF version \in e2.tags
             THEN [env |-> [e2 EXCEPT !.head = version, !.checkout = version],
                   ret |-> ReturnNone]
             ELSE [env |-> [e2 EXCEPT !.checkout = version],
                   ret |-> RaiseMsg("GitCommandError", <<"checkout", version>>)]
        ELSE [env |-> e2,
              ret |-> RaiseMsg("ValueError",
                               <<"Version ", version, " not available. Must be one of ", vs>>)]

\* a str argument
PyStr(v) == [type |-> "str", rank |-> 0, keys |-> <<>>, items |-> <<v>>]

\* the versions asked for
VersionNames == {"latest", "Latest", "v1.0.0", "V1.0.0", "v2.0", "V2.0", "beta", "foo"}

\* Nothing is cloned yet, or an older clone is there; git-lfs is installed
\* or not.
InitGet ==
    /\ emulator = "default"
    /\ limits = emulator_properties_limits(emulator)
    /\ pc = "idle"
    /\ arg = NoObject
    /\ given = NoObject
    /\ call = NoCall
    /\ ret = NoResult
    /\ raw = <<>>
    /\ pred = <<>>
    /\ stage = "idle"
    /\ rout = <<>>
    /\ files = NoFiles
    /\ cfg = NoConfig
    /\ cache = NoCache
    /\ \E l \in BOOLEAN :
          env \in {[NoData EXCEPT !.lfs = l],
                   [NoData EXCEPT !.lfs = l, !.cached = TRUE, !.model_ok = TRUE,
                                  !.tags = OldTags, !.head = "main"]}

GetEmuData ==
    /\ \E version \in VersionNames :
          LET r == get_emu_data(env, version)
          IN  /\ env' = r.env
              /\ ret' = r.ret
              /\ arg' = PyStr(version)
    /\ call' = [op |-> "get_emu_data", normed |-> FALSE]
    /\ UNCHANGED <<emulator, pc, given, limits, files, cfg, cache>>
    /\ UNCHANGED outVars

\* CONFIG["disable-network"] is set or cleared.
SetDisableNetwork ==
    /\ env' = [env EXCEPT !.disable_network = ~@]
    /\ call' = NoCall /\ arg' = NoObject /\ ret' = NoResult
    /\ UNCHANGED <<emulator, pc, given, limits, files, cfg, cache>>
    /\ UNCHANGED outVars

\* The network goes away or comes back.
NetworkChange ==
    /\ env' = [env EXCEPT !.online = ~@]
    /\ call' = NoCall /\ arg' = NoObject /\ ret' = NoResult
    /\ UNCHANGED <<emulator, pc, given, limits, files, cfg, cache>>
    /\ UNCHANGED outVars

\* saved_model.pb is overwritten with a short file.
DamageModel ==
    /\ env.cached /\ env.model_ok
    /\ env' = [env EXCEPT !.model_ok = FALSE]
    /\ call' = NoCall /\ arg' = NoObject /\ ret' = NoResult
    /\ UNCHANGED <<emulator, pc, given, limits, files, cfg, cache>>
    /\ UNCHANGED outVars

\* shutil.rmtree(CONFIG.data_path / "21cmEMU")
RemoveData ==
    /\ env.cached
    /\ env' = [env EXCEPT !.cached = FALSE, !.model_ok = FALSE, !.tags = {},
                          !.head = "none"]
    /\ call' = NoCall /\ arg' = NoObject /\ ret' = NoResult
    /\ UNCHANGED <<emulator, pc, given, limits, files, cfg, cache>>
    /\ UNCHANGED outVars

NextGet == GetEmuData \/ SetDisableNetwork \/ NetworkChange \/ DamageModel \/ RemoveData

SpecGet == InitGet /\ [][NextGet]_vars

----------------------------------------------------------------------------
(* config.py: Config.                                                      *)

\* APPDIR.user_data_dir
user_data_dir == "~/.local/share/py21cmEMU"

\* A variant that adds the lines that are new and rewrites nothing:
write_changed_only(c) ==
    [c EXCEPT !.file = TextFile(c.file.lines \o
                 SelectSeq(toml_dumps(c.config),
                           LAMBDA l : \A i \in 1..Len(c.file.lines) : c.file.lines[i] # l))]

\* self.config_file.write_text(toml.dumps(self.config))
write_text(c) == [c EXCEPT !.file = TextFile(toml_dumps(c.config))]

\* Config.__setitem__
Config_setitem(c, key, value) ==
    write_text([c EXCEPT !.config = DictSet(@, key, value)])

\* Config.__delitem__: [cfg, ret]
Config_delitem(c, key) ==
    IF Config_contains(c.config, key)
    THEN [cfg |-> write_text([c EXCEPT !.config = DictDel(@, key)]),
          ret |-> ReturnNone]
    ELSE [cfg |-> c, ret |-> Raise("KeyError")]

\* Config.update
Config_update(c, kw) ==
    write_text([c EXCEPT !.config = DictUpdate(@, kw)])

\* Config.data_path: Path(self["data-path"])
Config_data_path(c) == Config_getitem(c.config, "data-path").v

\* A variant that sets the data path only:
Config_init_data_path_only(c) ==
    LET c1 == [c EXCEPT !.file = TextFile(@.lines), !.made = TRUE,
                        !.config = toml_loads(c.file.lines)]
        c2 == IF Config_contains(c1.config, "data-path") THEN c1
              ELSE Config_setitem(c1, "data-path", PStr(user_data_dir))
    IN  [c2 EXCEPT !.dirs = @ \cup {Config_data_path(c2)}]

\* A variant that sets the defaults whatever the file holds:
Config_init_overwriting(c) ==
    LET c1 == [c EXCEPT !.file = TextFile(@.lines), !.made = TRUE,
                        !.config = toml_loads(c.file.lines)]
        c2 == Config_setitem(c1, "data-path", PStr(user_data_dir))
        c3 == [c2 EXCEPT !.dirs = @ \cup {Config_data_path(c2)}]
    IN  Config_setitem(c3, "disable-network", PBool(FALSE))

\* Config.__init__
Config_init(c) ==
    LET \* the file is touched when it is not there, then read
        c1 == [c EXCEPT !.file = TextFile(@.lines), !.made = TRUE,
                        !.config = toml_loads(c.file.lines)]
        c2 == IF Config_contains(c1.config, "data-path") THEN c1
              ELSE Config_setitem(c1, "data-path", PStr(user_data_dir))
        \* self.data_path.mkdir(parents=True, exist_ok=True)
        c3 == [c2 EXCEPT !.dirs = @ \cup {Config_data_path(c2)}]
    IN  IF Config_contains(c3.config, "disable-network") THEN c3
        ELSE Config_setitem(c3, "disable-network", PBool(FALSE))

\* Config.use, up to the yield: [cfg, ret]. The values of the keys of kw
\* are looked up first, which raises KeyError for a key that is not there.
Config_use_enter(c, kw) ==
    IF \E i \in 1..Len(kw) : ~Config_contains(c.config, kw[i][1])
    THEN [cfg |-> c, ret |-> Raise("KeyError")]
    ELSE LET old == [i \in 1..Len(kw) |-> <<kw[i][1], Config_getitem(c.config, kw[i][1])>>]
             c1 == Config_update(c, kw)
             \* file0: what the file said of these keys when the block began
             file0 == SelectSeq(c.file.lines,
                                LAMBDA l : \E i \in 1..Len(kw) : l.key = kw[i][1])
         IN  [cfg |-> [c1 EXCEPT !.block = <<[old |-> old, kw |-> kw, file0 |-> file0]>>],
              ret |-> ReturnNone]

\* A variant that restores nothing:
Config_use_forgetting(c) == [c EXCEPT !.block = <<>>]

\* Config.use, the finally clause: self.update(**old)
Config_use_exit(c) ==
    [Config_update(c, c.block[1].old) EXCEPT !.block = <<>>]

\* the keys and values of the model
ConfigKeys == {"data-path", "disable-network", "extra"}
\* the values given to a key: a Path for the data path, as test_config
\* does
ConfigValues(key) ==
    CASE key = "data-path" -> {PPath("/new")}
      [] key = "disable-network" -> {PBool(TRUE)}
      [] OTHER -> {PNone, PStr("x")}
\* the keyword arguments of update and use: one or two keys
KeywordArgs ==
    { <<<<"data-path", PStr("/tmp")>>>>,
      <<<<"disable-network", PBool(TRUE)>>>>,
      <<<<"data-path", PStr("/tmp")>>, <<"extra", PBool(TRUE)>>>> }

\* The config file before the first Config is made on it: missing, empty,
\* written by an earlier Config, or written by hand.
InitialFiles ==
    { NoFile,
      TextFile(<<>>),
      TextFile(<<Pair("data-path", PStr("/data"))>>),
      TextFile(<<Pair("disable-network", PBool(TRUE))>>),
      TextFile(<<Pair("data-path", PStr("/data")), Pair("disable-network", PBool(TRUE))>>),
      TextFile(<<Comment("# my settings"), Pair("disable-network", PBool(FALSE)),
                 Pair("data-path", PStr("/data"))>>) }

InitConfig ==
    /\ emulator = "default"
    /\ limits = emulator_properties_limits(emulator)
    /\ pc = "idle"
    /\ arg = NoObject
    /\ given = NoObject
    /\ call = NoCall
    /\ ret = NoResult
    /\ raw = <<>>
    /\ pred = <<>>
    /\ stage = "idle"
    /\ rout = <<>>
    /\ files = NoFiles
    /\ env = NoData
    /\ \E f \in InitialFiles, d \in {{}, {<<"/data">>}} :
          cfg = [NoConfig EXCEPT !.file = f, !.dirs = d]
    /\ cache = NoCache

\* conf = Config(config_file)
ConfigInit ==
    /\ ~cfg.made
    /\ cfg' = Config_init(cfg)
    /\ call' = [op |-> "Config", normed |-> FALSE]
    /\ arg' = NoObject
    /\ ret' = ReturnNone
    /\ UNCHANGED <<emulator, pc, given, limits, files, env, cache>>
    /\ UNCHANGED outVars

\* conf[key] = value
ConfigSetItem ==
    /\ cfg.made
    /\ \E key \in ConfigKeys : \E value \in ConfigValues(key) :
          /\ cfg' = Config_setitem(cfg, key, value)
          /\ arg' = PyStr(key)
    /\ call' = [op |-> "__setitem__", normed |-> FALSE]
    /\ ret' = ReturnNone
    /\ UNCHANGED <<emulator, pc, given, limits, files, env, cache>>
    /\ UNCHANGED outVars

\* del conf[key]
ConfigDelItem ==
    /\ cfg.made
    /\ \E key \in ConfigKeys :
          LET r == Config_delitem(cfg, key)
          IN  /\ cfg' = r.cfg
              /\ ret' = r.ret
              /\ arg' = PyStr(key)
    /\ call' = [op |-> "__delitem__", normed |-> FALSE]
    /\ UNCHANGED <<emulator, pc, given, limits, files, env, cache>>
    /\ UNCHANGED outVars

\* conf.update(**kw)
ConfigUpdate ==
    /\ cfg.made
    /\ \E kw \in KeywordArgs :
          /\ cfg' = Config_update(cfg, kw)
          /\ arg' = NoObject
    /\ call' = [op |-> "update", normed |-> FALSE]
    /\ ret' = ReturnNone
    /\ UNCHANGED <<emulator, pc, given, limits, files, env, cache>>
    /\ UNCHANGED outVars

\* with conf.use(**kw): the block is entered, or KeyError is raised
ConfigUseEnter ==
    /\ cfg.made /\ cfg.block = <<>>
    /\ \E kw \in KeywordArgs :
          LET r == Config_use_enter(cfg, kw)
          IN  /\ cfg' = r.cfg
              /\ ret' = r.ret
              /\ arg' = PyVec("kw", kw)
    /\ call' = [op |-> "use", normed |-> FALSE]
    /\ UNCHANGED <<emulator, pc, given, limits, files, env, cache>>
    /\ UNCHANGED outVars

\* the block of with conf.use(**kw) ends, normally or with an exception
ConfigUseExit ==
    /\ cfg.made /\ cfg.block # <<>>
    /\ cfg' = Config_use_exit(cfg)
    /\ arg' = NoObject
    /\ call' = [op |-> "use_exit", normed |-> FALSE]
    /\ ret' \in {ReturnNone, Raise("Exception")}
    /\ UNCHANGED <<emulator, pc, given, limits, files, env, cache>>
    /\ UNCHANGED outVars

NextConfig ==
    \/ ConfigInit \/ ConfigSetItem \/ ConfigDelItem \/ ConfigUpdate
    \/ ConfigUseEnter \/ ConfigUseExit

SpecConfig == InitConfig /\ [][NextConfig]_vars

----------------------------------------------------------------------------
(* emu21cmfast: config.py and get_emulator.py, the cache of emulator data  *)
(* by version label.                                                       *)

LATEST == "v1"
\* the versions that can be downloaded
urls == {"v1"}

\* Config.add_emulator: self['emu-versions'] += (emu,)
Legacy_add_emulator(c, emu) == [c EXCEPT !.versions = Append(@, emu)]
\* emu in self['emu-versions']
Listed(c, emu) == \E i \in 1..Len(c.versions) : c.versions[i] = emu
\* Config.get_emulator: [kind, val]
Legacy_get_emulator(c, emu) ==
    IF ~Listed(c, emu) THEN Raise("ValueError")
    ELSE [kind |-> "Path", val |-> <<c.data_path, emu>>]
\* path.exists()
PathExists(c, path) == path[1] \in c.roots /\ path \in c.entries

\* download_emu_data(version): the outcomes, each [cache, ret]. net is
\* what the network does: "ok", "down" (urlretrieve fails) or "badzip" (the
\* file is not a zip archive).
download_emu_data(c, version0, net) ==
    LET version == IF version0 = "latest" THEN LATEST ELSE version0
        dest    == c.data_path
        zipped  == [c EXCEPT !.entries = @ \cup {<<dest, "zipped_emulator">>}]
        outd    == [zipped EXCEPT !.entries = @ \cup {<<dest, "21cmEMU">>}]
        unlinked == [outd EXCEPT !.entries = @ \ {<<dest, "zipped_emulator">>}]
        renamed == [unlinked EXCEPT !.entries = (@ \ {<<dest, "21cmEMU">>})
                                                \cup {<<dest, version>>}]
    IN  IF Listed(c, version) THEN [cache |-> c, ret |-> ReturnNone]
        ELSE IF version \notin urls THEN [cache |-> c, ret |-> Raise("ValueError")]
        ELSE IF net = "down" \/ dest \notin c.roots
        THEN [cache |-> c, ret |-> RaiseMsg("ValueError", <<"Download failed!">>)]
        ELSE IF net = "badzip" THEN [cache |-> zipped, ret |-> Raise("OSError")]
        \* outd.rename(dest / version) on a directory that is there and not
        \* empty
        ELSE IF <<dest, version>> \in c.entries
        THEN [cache |-> unlinked, ret |-> Raise("OSError")]
        ELSE [cache |-> Legacy_add_emulator(renamed, version), ret |-> ReturnNone]

\* move_emulator_data(dest): the set of its outcomes, each [cache, ret]
move_emulator_data(c, dest) ==
    LET src == c.data_path
        \* if not dest.exists(): dest.mkdir(...); CONFIG["data-path"] = str(dest)
        c1  == IF dest \in c.roots THEN c
               ELSE [c EXCEPT !.roots = @ \cup {dest}, !.data_path = dest]
        held == {e \in c1.entries : e[1] = src}
        \* f.rename(dest / f.name) fails on a directory that is there
        clash == {e \in held : <<dest, e[2]>> \in c1.entries /\ e[2] # "zipped_emulator"}
        Moved(c2, es) ==
            [c2 EXCEPT !.entries = (@ \ es) \cup {<<dest, e[2]>> : e \in es}]
    IN  IF src = dest THEN {[cache |-> c1, ret |-> ReturnNone]}
        ELSE IF src \notin c1.roots
        THEN \* nothing to move, and src.rmdir() fails
             {[cache |-> c1, ret |-> Raise("FileNotFoundError")]}
        ELSE IF clash = {}
        THEN {[cache |-> [Moved(c1, held) EXCEPT !.roots = @ \ {src}], ret |-> ReturnNone]}
        ELSE \* some of the others were moved before the rename that failed
             {[cache |-> Moved(c1, es), ret |-> Raise("OSError")] :
                 es \in SUBSET (held \ clash)}

\* add_emulator_data(emu_data, label): emu_data is "dir", "file" or
\* "missing"
add_emulator_data(c, emu_data, label) ==
    LET c1   == Legacy_add_emulator(c, label)
        dest == Legacy_get_emulator(c1, label).val
    IN  IF emu_data = "missing" THEN [cache |-> c, ret |-> Raise("ValueError")]
        ELSE IF Listed(c, label) THEN [cache |-> c, ret |-> Raise("ValueError")]
        \* shutil.copytree(emu_data, dest)
        ELSE IF emu_data = "file" THEN [cache |-> c1, ret |-> Raise("NotADirectoryError")]
        ELSE IF PathExists(c1, dest) THEN [cache |-> c1, ret |-> Raise("FileExistsError")]
        ELSE [cache |-> [c1 EXCEPT !.roots = @ \cup {dest[1]}, !.entries = @ \cup {dest}],
              ret |-> ReturnNone]

\* the directories, labels and versions of the model
DataDirs == {"user_data_dir", "/scratch", "/new"}
Labels == {"v1", "mine"}

\* CONFIG is made on a new config file; /scratch is there.
InitCache ==
    /\ emulator = "default"
    /\ limits = emulator_properties_limits(emulator)
    /\ pc = "idle"
    /\ arg = NoObject
    /\ given = NoObject
    /\ call = NoCall
    /\ ret = NoResult
    /\ raw = <<>>
    /\ pred = <<>>
    /\ stage = "idle"
    /\ rout = <<>>
    /\ files = NoFiles
    /\ env = NoData
    /\ cfg = NoConfig
    /\ cache = [NoCache EXCEPT !.roots = @ \cup {"/scratch"}]

DownloadEmuData ==
    /\ \E version \in {"latest", "v1", "v2"}, net \in {"ok", "down", "badzip"} :
          LET r == download_emu_data(cache, version, net)
          IN  /\ cache' = r.cache
              /\ ret' = r.ret
              /\ arg' = PyStr(version)
    /\ call' = [op |-> "download_emu_data", normed |-> FALSE]
    /\ UNCHANGED <<emulator, pc, given, limits, files, env, cfg>>
    /\ UNCHANGED outVars

MoveEmulatorData ==
    /\ \E dest \in DataDirs :
          \E r \in move_emulator_data(cache, dest) :
              /\ cache' = r.cache
              /\ ret' = r.ret
              /\ arg' = PyStr(dest)
    /\ call' = [op |-> "move_emulator_data", normed |-> FALSE]
    /\ UNCHANGED <<emulator, pc, given, limits, files, env, cfg>>
    /\ UNCHANGED outVars

AddEmulatorData ==
    /\ \E emu_data \in {"dir", "file", "missing"}, label \in Labels :
          LET r == add_emulator_data(cache, emu_data, label)
          IN  /\ cache' = r.cache
              /\ ret' = r.ret
              /\ arg' = PyVec("args", <<emu_data, label>>)
    /\ call' = [op |-> "add_emulator_data", normed |-> FALSE]
    /\ UNCHANGED <<emulator, pc, given, limits, files, env, cfg>>
    /\ UNCHANGED outVars

NextCache == DownloadEmuData \/ MoveEmulatorData \/ AddEmulatorData

SpecCache == InitCache /\ [][NextCache]_vars

----------------------------------------------------------------------------
\* the quantities with a "<name>_mean" and a "<name>_std" in the archive
WithMeanAndStd ==
    {q \in OutputFields : <<q, "mean">> \in ArchiveKeys /\ <<q, "std">> \in ArchiveKeys}
\* mean + std * x, written out
Denormalized(name, x) == QAdd(properties_mean(name), QMul(properties_std(name), x))
Grid(rows, cols) == {<<r, c>> : r \in 1..rows, c \in 1..cols}

\* C11: every quantity with a mean/std pair in the archive (and no other) is
\* a normalized quantity, and what get_renormalized returns for it is made of
\* mean + std * raw_segment: Tb and UVLFs are that value, PS, tau and the
\* unmasked Ts are 10 ** of it (the exponentiation and the mask come after);
\* xHI, which has no pair, is its raw segment, not rescaled.
C11_Denormalized ==
    /\ normalized_quantities = WithMeanAndStd
    /\ "xHI" \notin normalized_quantities
    /\ stage = "done" =>
        \A i \in 1..Len(pred) :
            LET v    == pred[i]
                zbin == Nearest(reshift_where_Ts_becomes_defined(v))
            IN  /\ \A j \in 1..NZ :
                      OutOf("Tb", i)[j] = Denormalized("Tb", RawTb(v)[j])
                /\ \A g \in Grid(Len(uv_lf_zs), Cardinality(MuvKept)) :
                      OutOf("UVLFs", i)[g[1]][g[2]]
                          = Denormalized("UVLFs", RawUVLFs(v)[g[1]][g[2]])
                /\ \A g \in Grid(PS_NZ, PS_NK) :
                      OutOf("PS", i)[g[1]][g[2]]
                          = Pow10Q(Denormalized("PS", RawPS(v)[g[1]][g[2]]))
                /\ OutOf("tau", i) = Pow10Q(Denormalized("tau", Rawtau(v)))
                /\ \A j \in zbin..NZ :
                      /\ OutOf("Ts", i)[j] = Pow10Q(Denormalized("Ts", RawTs(v)[j]))
                      /\ OutOf("xHI", i)[j] = RawxHI(v)[j]

\* a batch of two was reconstructed, with a brightness temperature that
\* differs from its raw segment and an unmasked xHI that is the raw one
C11_Witness ==
    /\ stage = "done" /\ Len(pred) = 2
    /\ rout.Tb[1] # RawTb(pred[1])
    /\ rout.Tb[1][1] = Denormalized("Tb", RawTb(pred[1])[1])
    /\ rout.xHI[2] = RawxHI(pred[2])
    /\ rout.xHI[2][1] # QZero

\* the de-normalized value of a normalized quantity of sample i
DenormalizedOf(name, i) == renormalize(pred[i], name).val
IsLogScaled(name) == name \in {"PS", "Ts", "tau"}

\* C12: PS, Ts and tau are returned as 10 ** of their de-normalized values
\* (Ts where it is not masked), and Tb, xHI and UVLFs are returned without
\* exponentiation: Tb and UVLFs are their de-normalized values, xHI (where
\* it is not zero-filled) its raw segment.
C12_LogScaledOnly ==
    stage = "done" =>
        \A i \in 1..Len(pred) :
            LET zbin == Nearest(reshift_where_Ts_becomes_defined(pred[i]))
            IN  /\ OutOf("PS", i) = Map2(Pow10Q, DenormalizedOf("PS", i))
                /\ OutOf("tau", i) = Pow10Q(DenormalizedOf("tau", i))
                /\ \A j \in zbin..NZ :
                      OutOf("Ts", i)[j] = Pow10Q(DenormalizedOf("Ts", i)[j])
                /\ OutOf("Tb", i) = DenormalizedOf("Tb", i)
                /\ OutOf("UVLFs", i) = DenormalizedOf("UVLFs", i)
                /\ \A j \in zbin..NZ : OutOf("xHI", i)[j] = RawxHI(pred[i])[j]

\* a single sample was reconstructed: its PS differs from the
\* de-normalized one, its UVLFs do not
C12_Witness ==
    /\ stage = "done" /\ Len(pred) = 1
    /\ rout.PS # DenormalizedOf("PS", 1)
    /\ rout.PS[1][1] = Pow10Q(DenormalizedOf("PS", 1)[1][1])
    /\ rout.UVLFs = DenormalizedOf("UVLFs", 1)
    /\ rout.tau # DenormalizedOf("tau", 1)

\* the positions 1..n as a vector: reading a segment of it gives the
\* positions the segment reads
Positions(n) == [k \in 1..n |-> k]
RECURSIVE Flatten(_)
Flatten(rows) == IF rows = <<>> THEN <<>> ELSE Head(rows) \o Flatten(Tail(rows))
SegmentReads(n) ==
    LET p == Positions(n)
    IN  << RawTb(p), RawxHI(p), RawTs(p), <<reshift_where_Ts_becomes_defined(p)>>,
           Flatten(RawPS(p)), <<Rawtau(p)>>, Flatten(full_UVLFs(p)) >>

\* C13: the segments read from each sample's flat vector are, in Python's
\* indices, Tb [0, nz), xHI [nz, 2nz), Ts [2nz, 3nz), the transition
\* redshift 3nz, PS [3nz+1, 3nz+721) as 60 rows of 12, tau 3nz+721 and
\* UVLFs [3nz+722, end); they are pairwise disjoint and cover every index
\* of the vector exactly once.
C13_SegmentsPartition ==
    stage = "raw" =>
        \A i \in 1..Len(raw) :
            LET n     == Len(raw[i])
                reads == SegmentReads(n)
                all   == Flatten(reads)
                Py(a, b) == {k + 1 : k \in a..(b - 1)}
            IN  /\ Range(reads[1]) = Py(0, nz)
                /\ Range(reads[2]) = Py(nz, 2 * nz)
                /\ Range(reads[3]) = Py(2 * nz, 3 * nz)
                /\ Range(reads[4]) = Py(3 * nz, 3 * nz + 1)
                /\ Range(reads[5]) = Py(3 * nz + 1, 3 * nz + 721)
                /\ Len(RawPS(raw[i])) = 60
                /\ \A r \in 1..60 : Len(RawPS(raw[i])[r]) = 12
                /\ Range(reads[6]) = Py(3 * nz + 721, 3 * nz + 722)
                /\ Range(reads[7]) = Py(3 * nz + 722, n)
                /\ Len(all) = n
                /\ Range(all) = 1..n

\* a raw output of two samples is held, each longer than the 722 + 3 nz
\* values that precede the UVLFs
C13_Witness ==
    /\ stage = "raw" /\ Len(raw) = 2
    /\ \A i \in 1..2 : Len(raw[i]) > 3 * nz + 722
    /\ raw[1] # raw[2]

\* the shape of an array of the given number of dimensions
RECURSIVE ShapeAt(_, _)
ShapeAt(x, depth) ==
    IF depth = 0 THEN <<>> ELSE <<Len(x)>> \o ShapeAt(x[1], depth - 1)
\* the shape of one sample's array of each quantity
SampleShape(name) ==
    CASE name \in {"Tb", "xHI", "Ts"} -> <<NZ>>
      [] name = "PS" -> <<60, 12>>
      [] name = "tau" -> <<>>
      [] name = "UVLFs" -> <<Len(uv_lf_zs), Cardinality(MuvKept)>>

\* C14: get_renormalized returns one structure, with one array per output
\* field; for a batch of one sample every array has the sample's own shape
\* (no batch dimension), for a batch of n > 1 samples every array has a
\* leading dimension of size n before the sample's shape.
C14_BatchDimension ==
    stage = "done" =>
        /\ DOMAIN rout = OutputFields
        /\ \A k \in OutputFields :
              LET n == Len(pred)
                  d == Len(SampleShape(k))
              IN  IF n = 1
                  THEN ShapeAt(rout[k], d) = SampleShape(k)
                  ELSE ShapeAt(rout[k], d + 1) = <<n>> \o SampleShape(k)

\* a batch of one was reconstructed and its arrays have no batch dimension
C14_Witness ==
    /\ stage = "done" /\ Len(pred) = 1
    /\ Len(rout.Tb) = NZ /\ Len(rout.PS) = 60 /\ Len(rout.PS[1]) = 12

\* C15: renormalize(name) on a raw emulator output, with a name that is
\* not a normalized quantity of the archive, raises ValueError, with the
\* name in its message, returns no value and leaves the raw output as it
\* was.
C15_RenormalizeUnknownName ==
    (call.op = "renormalize" /\ arg.items[1] \notin WithMeanAndStd) =>
        /\ ret.kind = "ValueError"
        /\ arg.items[1] \in Range(ret.val)
        /\ raw = pred

\* the arguments of the write just made
WriteCalled == call.op = "write"
WriteFname == arg.items[1]
WriteTheta == arg.items[2]
WriteStore == arg.items[3]
WriteClobber == arg.items[4]

\* C16: write with clobber=False never overwrites an existing file: when
\* the file the write would produce (the name given, with ".npz" appended
\* as np.savez does when the name lacks it) exists and clobber is False, the
\* call raises ValueError and the files are as they were.
C16_NoClobber ==
    [][ ( /\ call'.op = "write"
          /\ ~arg'.items[4]
          /\ files[SavezPath(arg'.items[1])].kind # "absent" )
        => (ret'.kind = "ValueError" /\ files' = files) ]_vars

\* C17: after write succeeds, the file np.savez wrote reloads as a mapping
\* whose keys are the names in store (all output fields when store is None)
\* plus "inputs" exactly when theta was given; each stored value is the
\* output's attribute of that name, and "inputs" is theta.
C17_WriteReload ==
    (WriteCalled /\ ret = ReturnNone) =>
        LET f     == files[SavezPath(WriteFname)]
            names == IF WriteStore.given THEN Range(WriteStore.val) ELSE OutputFields
        IN  /\ f.kind = "npz"
            /\ DOMAIN f.arr_0 = names \cup (IF WriteTheta.given THEN {"inputs"} ELSE {})
            /\ ("inputs" \in DOMAIN f.arr_0) <=> WriteTheta.given
            /\ \A k \in names : f.arr_0[k] = GetAttr(rout, k)
            /\ WriteTheta.given => f.arr_0["inputs"] = WriteTheta.val
            /\ \A k \in OutputFields \ names : k \notin DOMAIN f.arr_0

\* a write with store = ["PS"] and no theta succeeded, over a file that
\* held more
C17_Witness ==
    /\ WriteCalled /\ ret = ReturnNone
    /\ WriteStore = Some(<<"PS">>) /\ ~WriteTheta.given /\ WriteClobber
    /\ DOMAIN files[SavezPath(WriteFname)].arr_0 = {"PS"}
    /\ files[SavezPath(WriteFname)].arr_0["PS"] = rout.PS

\* the names of the error estimates
ErrorNames == {"delta_err", "brightness_temp_err", "xHI_err", "spin_temp_err", "tau_e_err"}
\* the number of parameter sets of the input
SetsGiven == IF given.rank = 2 THEN PyLen(given) ELSE 1

\* C18: Emulator.predict(parameter_batch), when it returns, returns a
\* triple (normalized_inputs, labeled_output, error_dict): the normalized
\* inputs have one row per parameter set, with values in [0, 1]; the
\* labeled output is the reconstructed structure, with the output fields as
\* its keys; the error dict holds the error estimates.
C18_PredictReturnsTriple ==
    (call.op = "predict" /\ ret.kind \notin Exceptions) =>
        /\ ret.kind = "tuple"
        /\ Len(ret.val) = 3
        /\ Len(ret.val[1]) = SetsGiven
        /\ AllInUnit(ret.val[1])
        /\ DOMAIN ret.val[2] = OutputFields
        /\ DOMAIN ret.val[3] \subseteq ErrorNames

\* get_emu_data was just called, with this version
GetCalled == call.op = "get_emu_data"
\* the repository's tags that start with "v", as they are written
TagsWithV(tags) == {t \in tags : t \in {"v1.0.0", "v2.0"}}

\* C19: get_emu_data(version) with a version that is neither "latest" nor
\* one of the repository's tags starting with "v" raises ValueError, whose
\* message lists the valid versions, and checks nothing out.
C19_UnknownVersionIsValueError ==
    [][ ( /\ call'.op = "get_emu_data"
          /\ arg'.items[1] # "latest"
          /\ arg'.items[1] \notin TagsWithV(env'.tags) )
        => ( /\ ret'.kind = "ValueError"
             /\ ret'.val[4] = versions(env'.tags)
             /\ env'.checkout = "none" ) ]_vars

\* the lowercase forms of the tags that start with "v" or "V"
LowercaseVTags(tags) ==
    {Lower(t) : t \in {u \in tags : Lower(u) \in {"v1.0.0", "v2.0"}}}

\* C19, as the code has it: when the clone is there and passes the size
\* check, a version that is not "latest" and whose lowercase form is not the
\* lowercase form of a tag starting with "v" or "V" raises ValueError, whose
\* message names the version and lists those lowercase forms, and checks
\* nothing out; a version whose lowercase form is listed is handed to git
\* checkout as it was given, which fails when no tag is written that way.
C19_UnlistedVersionIsValueError ==
    [][ /\ ( /\ call'.op = "get_emu_data"
             /\ env'.cached /\ env'.model_ok
             /\ arg'.items[1] # "latest"
             /\ Lower(arg'.items[1]) \notin LowercaseVTags(env'.tags) )
           => ( /\ ret'.kind = "ValueError"
                /\ ret'.val[2] = arg'.items[1]
                /\ ret'.val[4] = LowercaseVTags(env'.tags)
                /\ env'.checkout = "none" )
        /\ ( /\ call'.op = "get_emu_data"
             /\ env'.cached /\ env'.model_ok
             /\ arg'.items[1] # "latest"
             /\ Lower(arg'.items[1]) \in LowercaseVTags(env'.tags) )
           => ( /\ env'.checkout = arg'.items[1]
                /\ ret'.kind = IF arg'.items[1] \in env'.tags
                               THEN "None" ELSE "GitCommandError" ) ]_vars

\* get_emu_data("foo") raised ValueError on a clone with a version checked
\* out, which stays checked out
C19_Witness ==
    /\ GetCalled /\ arg = PyStr("foo")
    /\ ret.kind = "ValueError"
    /\ env.cached /\ env.model_ok /\ env.head = "v1.0.0"
    /\ env.checkout = "none"

AcquiresNoModel(e) ==
    \/ e.cached /\ ~e.model_ok
    \/ ~e.cached /\ e.disable_network
    \/ ~e.cached /\ ~e.disable_network /\ e.online /\ ~e.lfs

\* C21: within one call of get_emu_data the data is acquired at most once:
\* when saved_model.pb is missing or too small after the clone-or-open step,
\* the call raises RuntimeError at once, with no second clone, no pull, no
\* warning and no checkout; so it does with no copy and the network
\* disabled.
C21_NoRetry ==
    [][ ( call'.op = "get_emu_data" /\ AcquiresNoModel(env) )
        => ( /\ ret'.kind = "RuntimeError"
             /\ env'.clones = (IF env.cached \/ env.disable_network THEN 0 ELSE 1)
             /\ ~env'.pulled
             /\ env'.warnings = <<>>
             /\ env'.checkout = "none"
             /\ env'.head = (IF env.cached \/ env.disable_network THEN env.head ELSE "main")
             /\ ~env'.model_ok ) ]_vars

\* a call on a damaged copy raised RuntimeError with the network there
C21_Witness ==
    /\ GetCalled /\ ret.kind = "RuntimeError"
    /\ env.cached /\ ~env.model_ok /\ env.online /\ ~env.disable_network
    /\ env.clones = 0 /\ ~env.pulled /\ env.checkout = "none"

\* the calls that change a Config, when they return
ConfigMutated ==
    /\ call.op \in {"__setitem__", "__delitem__", "update", "use", "use_exit"}
    /\ ret.kind # "KeyError"
\* the set of the lines of a file that give a key its value
KeyLines(lines) == {lines[i] : i \in {j \in 1..Len(lines) : lines[j].kind = "pair"}}
\* the defaults of the two entries every Config holds
ConfigDefault(key) ==
    IF key = "data-path" THEN PStr(user_data_dir) ELSE PBool(FALSE)
\* the value the file gives a key
FileValue(lines, key) == (CHOOSE l \in KeyLines(lines) : l.key = key).val
FileHas(lines, key) == \E l \in KeyLines(lines) : l.key = key

\* C22: once a Config is made, and after any __setitem__, __delitem__ and
\* update on it, the text of the config file is the serialization of the
\* mapping in memory.
C22_FileIsSerialization ==
    cfg.made => cfg.file.lines = toml_dumps(cfg.config)

\* C22, as the code has it: the file always parses to the serialization of
\* the mapping in memory, and after every call that changes the mapping its
\* text is that serialization, the whole file being rewritten; a Config made
\* on a file that holds both entries writes nothing and leaves its text, a
\* comment included, as it was.
C22_FileParsesToSerialization ==
    /\ [](cfg.made =>
            /\ cfg.file.exists
            /\ toml_loads(cfg.file.lines) = toml_loads(toml_dumps(cfg.config))
            /\ ConfigMutated => cfg.file.lines = toml_dumps(cfg.config))
    /\ [][ call'.op = "Config" =>
             IF FileHas(cfg.file.lines, "data-path")
                /\ FileHas(cfg.file.lines, "disable-network")
             THEN cfg'.file.lines = cfg.file.lines
             ELSE cfg'.file.lines = toml_dumps(cfg'.config) ]_vars

\* a Path was stored and a key deleted: the file is the serialization, in
\* which the Path is the string of its repr
C22_Witness ==
    /\ cfg.made /\ call.op = "__delitem__" /\ ret = ReturnNone
    /\ cfg.config = <<<<"data-path", PPath("/new")>>>>
    /\ cfg.file.lines = <<Pair("data-path", [type |-> "str", v |-> <<"PosixPath('", "/new", "')">>])>>

C28_UseRestores ==
    [][ /\ call'.op = "use_exit"
           => \A i \in 1..Len(cfg.block[1].kw) :
                 LET key == cfg.block[1].kw[i][1]
                 IN  /\ Config_contains(cfg'.config, key)
                     /\ Config_getitem(cfg'.config, key) = cfg.block[1].old[i][2]
                     /\ {l \in KeyLines(cfg'.file.lines) : l.key = key}
                           = {l \in KeyLines(cfg.block[1].file0) : l.key = key}
        /\ call'.op = "use"
           => IF \E i \in 1..Len(arg'.items) :
                    ~Config_contains(cfg.config, arg'.items[i][1])
              THEN ret'.kind = "KeyError" /\ cfg' = cfg
              ELSE ret' = ReturnNone /\ cfg'.block # <<>> ]_vars

\* a block that ended with an exception gave the data path back its Path
C28_Witness ==
    /\ call.op = "use_exit" /\ ret = Raise("Exception")
    /\ Config_contains(cfg.config, "data-path")
    /\ Config_getitem(cfg.config, "data-path") = PPath("/new")
    /\ Config_contains(cfg.config, "extra")
    /\ Config_getitem(cfg.config, "extra") = PNone

\* C25: get_renormalized does not change the raw output array it was built
\* from: after the call, and after any number of further calls, every
\* element of raw.output has the value the network predicted.
C25_RawOutputUnchanged ==
    stage = "done" => raw = pred

\* what the legacy Emulator.predict returns for the prediction the raw
\* output was built from
LegacyOutput ==
    Emulator_predict(PyArray2([i \in 1..Len(pred) |-> UnitRow("default", R(1, 2))]),
                     pred).val

\* C26: for every raw prediction of the default variant, the masking of the
\* legacy Emulator.predict, which copies into zero-filled xHI and Ts arrays,
\* and the masking of get_renormalized, which assigns in place, give the
\* same xHI and the same Ts, NaN positions included, for every sample and
\* every redshift index.
C26_SameMasking ==
    (stage = "done" /\ call.op = "get_renormalized") =>
        /\ LegacyOutput.xHI = rout.xHI
        /\ LegacyOutput.spin_temp = rout.Ts

\* a batch of two, one sample zero-filled and one not, masked alike by both
C26_Witness ==
    /\ stage = "done" /\ call.op = "get_renormalized" /\ Len(pred) = 2
    /\ LET z1 == Nearest(reshift_where_Ts_becomes_defined(pred[1]))
           z2 == Nearest(reshift_where_Ts_becomes_defined(pred[2]))
       IN  /\ z1 > 1 /\ z2 > 1
           /\ QLt(RawxHI(pred[1])[z1], Q(1, 10))
           /\ ~QLt(RawxHI(pred[2])[z2], Q(1, 10))
           /\ RawxHI(pred[1])[1] # QZero
           /\ LegacyOutput.xHI[1][1] = QZero
           /\ LegacyOutput.xHI[2] = RawxHI(pred[2])
           /\ LegacyOutput.spin_temp[2][1] = NaN
           /\ LegacyOutput.spin_temp[1][NZ] # NaN

\* the values of a quantity read from a sample, one after the other
RadioValues(name, i) ==
    CASE name = "PS" -> Flatten(rout.PS[i])
      [] name = "tau" -> <<rout.tau[i]>>
      [] OTHER -> rout[name][i]
\* the length of each branch of the radio model, as the specification has
\* them
RadioLength(name) ==
    CASE name = "PS" -> 500 [] name = "tau" -> 1 [] OTHER -> 103

C29_ListedVersionsExist ==
    /\ \A i \in 1..Len(cache.versions) :
          PathExists(cache, Legacy_get_emulator(cache, cache.versions[i]).val)
    /\ \A i, j \in 1..Len(cache.versions) :
          cache.versions[i] = cache.versions[j] => i = j

\* One parameter set handed to make_param_array, which reaches
\* _format_single_theta_vector with it.
SingleSetGiven ==
    /\ Called("make_param_array")
    /\ given.rank = 1
    /\ given.type = "dict" \/ PyLen(given) > 0

\* C30: _format_single_theta_vector checks the length before the type.  A
\* parameter set whose length differs from the parameter count raises the
\* length-mismatch ValueError whatever its type, a tuple included;
\* TypeError is raised exactly for a set of the correct length that is
\* neither a dict, an array nor a list.  A dict holding every parameter
\* key gives the result of the list of its values taken in the order of
\* astro_param_keys, whatever the order of its own keys.
C30_LengthBeforeType ==
    SingleSetGiven
    => /\ PyLen(given) # NParams(emulator) => ret = Raise("ValueError")
       /\ ret = Raise("TypeError")
             <=> /\ PyLen(given) = NParams(emulator)
                 /\ given.type \notin {"dict", "ndarray", "list"}
       /\ ( given.type = "dict" /\ AcceptableSet(emulator, given) )
             => ret = make_param_array(emulator,
                         Heap(PyVec("list", RowOf(emulator, given)), limits),
                         call.normed).ret

\* a tuple of wrong length was refused with ValueError, not TypeError
C30_Witness ==
    /\ SingleSetGiven
    /\ given.type = "tuple"
    /\ PyLen(given) # NParams(emulator)
    /\ ret = Raise("ValueError")

\* a dict whose keys are in another order than astro_param_keys, and whose
\* values differ by position, was converted
C30_DictWitness ==
    /\ SingleSetGiven
    /\ given.type = "dict" /\ AcceptableSet(emulator, given)
    /\ given.keys # astro_param_keys(emulator)
    /\ given.items # RowOf(emulator, given)
    /\ ret.kind = "array"

============================================================================
